---------------------------- MODULE Spec2Model ----------------------------
(***************************************************************************)
(* A model of the ingestion scripts of td_v2:                              *)
(*   art_coin.py  - token table (date, metric) x TOKEN, resume-forward     *)
(*   art_dat.py   - equity table (date, label) x EQ-symbol, key mapping,   *)
(*                  forward-filled shares and the computed mNAV            *)
(*                                                                         *)
(* Numbers.  A Python float is modelled as an exact decimal                *)
(*   [neg, int, frac]   = (-1)^neg * (int + 0.frac)                        *)
(* whose fraction digits carry no trailing zero.  The text of a CSV cell   *)
(* is modelled by its parts, [kind, neg, int, digits]: the empty string,   *)
(* the literal NaN, an unparsable word, or sign/integer part/the fraction  *)
(* digits that f"{v:.10f}" prints.                                         *)
(*                                                                         *)
(* Dates.  An ISO date string is modelled by its day number; 1970-01-01    *)
(* is day 0 (ISO strings of equal width sort as their dates do).           *)
(***************************************************************************)
EXTENDS Integers, Sequences, FiniteSets, TLC

(***************************************************************************)
(* Sequence helpers                                                        *)
(***************************************************************************)
Range(s) == {s[i] : i \in DOMAIN s}

Front(s) == SubSeq(s, 1, Len(s) - 1)

Zeros(n) == [i \in 1..n |-> 0]

Max(S) == CHOOSE x \in S : \A y \in S : y <= x

Min(S) == CHOOSE x \in S : \A y \in S : x <= y

(***************************************************************************)
(* Decimal values and the cell text  (f"{v:.10f}" and float(val))          *)
(***************************************************************************)
FracDigits == 10

Num(n) == [neg |-> FALSE, int |-> n, frac |-> <<>>]

RECURSIVE StripZeros(_)
StripZeros(ds) ==
    IF ds = <<>> THEN <<>>
    ELSE IF ds[Len(ds)] = 0 THEN StripZeros(Front(ds))
    ELSE ds

\* ds + 1 in the last place, with the carry out of the first place
RECURSIVE IncDigits(_)
IncDigits(ds) ==
    IF ds = <<>> THEN [carry |-> 1, digits |-> <<>>]
    ELSE IF ds[Len(ds)] < 9
         THEN [carry |-> 0, digits |-> Append(Front(ds), ds[Len(ds)] + 1)]
         ELSE LET r == IncDigits(Front(ds))
              IN  [carry |-> r.carry, digits |-> Append(r.digits, 0)]

EmptyText == [kind |-> "empty", neg |-> FALSE, int |-> 0, digits |-> <<>>]

NaNText == [kind |-> "NaN", neg |-> FALSE, int |-> 0, digits |-> <<>>]

JunkText == [kind |-> "junk", neg |-> FALSE, int |-> 0, digits |-> <<>>]

\* faulty variant: the fraction is cut after FracDigits digits instead of rounded
FormatFixedTruncating(v) ==
    LET all == v.frac \o Zeros(FracDigits)
    IN  [kind |-> "num", neg |-> v.neg, int |-> v.int,
         digits |-> SubSeq(all, 1, FracDigits)]

\* f"{v:.10f}": FracDigits fraction digits, correctly rounded (ties to even)
FormatFixed(v) ==
    LET all  == v.frac \o Zeros(FracDigits)
        kept == SubSeq(all, 1, FracDigits)
        rest == SubSeq(v.frac, FracDigits + 1, Len(v.frac))
        up   == /\ rest # <<>>
                /\ \/ rest[1] > 5
                   \/ /\ rest[1] = 5
                      /\ \/ Len(rest) > 1
                         \/ kept[FracDigits] % 2 = 1
        inc  == IncDigits(kept)
    IN  IF up
        THEN [kind |-> "num", neg |-> v.neg, int |-> v.int + inc.carry,
              digits |-> inc.digits]
        ELSE [kind |-> "num", neg |-> v.neg, int |-> v.int, digits |-> kept]

\* faulty variant: an absent cell is written as zero
CellTextZeroForAbsent(rowmap, t) ==
    IF t \in DOMAIN rowmap THEN FormatFixed(rowmap[t]) ELSE FormatFixed(Num(0))

\* the cell written for rowmap.get(t): "" if v is None else f"{v:.10f}"
CellText(rowmap, t) ==
    IF t \in DOMAIN rowmap THEN FormatFixed(rowmap[t]) ELSE EmptyText

\* val not in (None, "", "NaN") and float(val) does not raise
Parsable(text) == text.kind = "num"

\* float(val)
ParseFloat(text) ==
    [neg |-> text.neg, int |-> text.int, frac |-> StripZeros(text.digits)]

\* Python's == on floats: -0.0 == 0.0
IsZero(v) == v.int = 0 /\ v.frac = <<>>

NumEq(a, b) == (IsZero(a) /\ IsZero(b)) \/ a = b


(***************************************************************************)
(* Names and their order                                                   *)
(***************************************************************************)
\* Python compares strings by code point: the names of the model, ascending
Alphabet ==
    <<"ADA", "BTC", "EQ-MSTR", "EQ-OLD", "EQ-SBET", "ETH", "MC / Nav",
      "Net Asset Value", "Number of Shares Outstanding", "Price", "SOL",
      "Stock Trading Volume", "btc", "mNAV", "mc", "price">>

AlphaRank(s) == CHOOSE i \in DOMAIN Alphabet : Alphabet[i] = s

\* str.upper() on the names of the model
Upper(t) == CASE t = "btc" -> "BTC"
              [] t = "eth" -> "ETH"
              [] t = "sol" -> "SOL"
              [] OTHER -> t

\* str.lower() on the token names of the model
Lower(t) == CASE t = "BTC" -> "btc"
              [] t = "ETH" -> "eth"
              [] t = "SOL" -> "sol"
              [] OTHER -> t

\* sorted(S) for a set of names
RECURSIVE SortedNames(_)
SortedNames(S) ==
    IF S = {} THEN <<>>
    ELSE LET m == CHOOSE x \in S : \A y \in S : AlphaRank(x) <= AlphaRank(y)
         IN  <<m>> \o SortedNames(S \ {m})

IndexOf(s, x) == CHOOSE i \in DOMAIN s : s[i] = x

EmptyMap == [x \in {} |-> x]

(***************************************************************************)
(* art_coin.py                                                             *)
(***************************************************************************)
TOKENS == <<"ETH", "btc">>

METRICS == <<"price">>

\* "1970-01-01"
Epoch == 0

\* the empty string in the date column
EmptyDate == -1

\* tokens_upper = [t.upper() for t in TOKENS]
TokensUpper(tokens) == [i \in DOMAIN tokens |-> Upper(tokens[i])]

NoFile == [exists |-> FALSE, header |-> <<>>, rows |-> <<>>]

\* no scraped table
NoTable == [cols |-> <<>>, rows |-> <<>>]

\* the token columns of a header: every column but date and metric
TokenCols(header) == SelectSeq(header, LAMBDA c : c \notin {"date", "metric"})

\* one row of the file folded into the table (the body of the reader's loop)
ReadRow(table, header, row) ==
    IF row.date = EmptyDate \/ row.metric = "" THEN table
    ELSE LET key    == <<row.date, row.metric>>
             old    == IF key \in DOMAIN table THEN table[key] ELSE EmptyMap
             cols   == {i \in DOMAIN header :
                          /\ header[i] \notin {"date", "metric"}
                          /\ Parsable(row.cells[i])}
             names  == {Upper(header[i]) : i \in cols}
             \* a later column of the same name overwrites an earlier one
             lastOf(t) == Max({i \in cols : Upper(header[i]) = t})
             rowmap == [t \in DOMAIN old \cup names |->
                          IF t \in names THEN ParseFloat(row.cells[lastOf(t)])
                          ELSE old[t]]
         IN  [k \in DOMAIN table \cup {key} |->
                 IF k = key THEN rowmap ELSE table[k]]

RECURSIVE ReadRows(_, _, _)
ReadRows(table, header, rows) ==
    IF rows = <<>> THEN table
    ELSE ReadRows(ReadRow(table, header, Head(rows)), header, Tail(rows))

\* read_existing_table: the table of a file ({} when the file is absent)
ReadExistingTable(file) ==
    IF ~file.exists THEN EmptyMap
    ELSE ReadRows(EmptyMap, file.header, file.rows)

\* existing_tokens: every token holding a value in some row
ExistingTokens(table) == UNION {DOMAIN table[k] : k \in DOMAIN table}

\* metric_key(m) = (metric_rank.get(m, len(METRICS)), m)
MetricRank(m) ==
    IF m \in Range(METRICS) THEN IndexOf(METRICS, m) - 1 ELSE Len(METRICS)

\* sorted(table.keys(), key=lambda x: (x[0], metric_key(x[1])))
KeyLess(a, b) ==
    \/ a[1] < b[1]
    \/ /\ a[1] = b[1]
       /\ \/ MetricRank(a[2]) < MetricRank(b[2])
          \/ /\ MetricRank(a[2]) = MetricRank(b[2])
             /\ AlphaRank(a[2]) < AlphaRank(b[2])

RECURSIVE SortedKeys(_)
SortedKeys(S) ==
    IF S = {} THEN <<>>
    ELSE LET m == CHOOSE x \in S : \A y \in S \ {x} : KeyLess(x, y)
         IN  <<m>> \o SortedKeys(S \ {m})

\* faulty variant: extras discovered in the table are not written
HeaderTokensNoExtras(table, tokens) == TokensUpper(tokens)

\* header_tokens = [t.upper() for t in tokens] + extras
HeaderTokens(table, tokens) ==
    LET up     == TokensUpper(tokens)
        extras == SortedNames(ExistingTokens(table) \ Range(up))
    IN  up \o extras

\* write_table: the file written for a table
WriteTable(table, tokens) ==
    LET ht   == HeaderTokens(table, tokens)
        keys == SortedKeys(DOMAIN table)
    IN  [exists |-> TRUE,
         header |-> <<"date", "metric">> \o ht,
         rows   |-> [i \in DOMAIN keys |->
                       [date   |-> keys[i][1],
                        metric |-> keys[i][2],
                        cells  |-> <<EmptyText, EmptyText>> \o
                                   [j \in DOMAIN ht |->
                                      CellText(table[keys[i]], ht[j])]]]]

\* dates = [d for (d, m) in table.keys() if m == metric]
MetricDates(table, metric) == {k[1] : k \in {x \in DOMAIN table : x[2] = metric}}

\* faulty variant: the latest date of every metric, not of this one
MetricMaxDateAnyMetric(table, metric) ==
    LET all == {k[1] : k \in DOMAIN table}
    IN  IF all = {} THEN <<>> ELSE <<Max(all)>>

\* metric_max_date: <<>> is None, <<d>> the latest date of the metric
MetricMaxDate(table, metric) ==
    LET dates == MetricDates(table, metric)
    IN  IF dates = {} THEN <<>> ELSE <<Max(dates)>>

\* has_any: some row of the metric holds a value for the token
HasAny(table, metric, t) ==
    \E k \in DOMAIN table : k[2] = metric /\ t \in DOMAIN table[k]

\* tokens_missing
TokensMissing(table, metric, tokensUpper) ==
    SelectSeq(tokensUpper, LAMBDA t : ~HasAny(table, metric, t))

\* effective_start: where the fetch of a metric starts
EffectiveStart(table, metric, tokensUpper) ==
    LET existingMax  == MetricMaxDate(table, metric)
        startDefault == IF existingMax = <<>> THEN Epoch
                        ELSE existingMax[1] + 1
    IN  IF existingMax # <<>> /\ TokensMissing(table, metric, tokensUpper) # <<>>
        THEN Epoch
        ELSE startDefault

\* a point of the provider's response without a date or without a value
NoneDate == -2

NoneVal == [neg |-> FALSE, int |-> -1, frac |-> <<>>]

\* the series the response holds for a symbol: its points, in the order served
SeriesOf(resp, sym) ==
    LET mine == SelectSeq(resp, LAMBDA p : p.sym = sym)
    IN  [i \in DOMAIN mine |-> [date |-> mine[i].date, val |-> mine[i].val]]

\* fetch_metric_for_tokens: {TOKEN_UPPER: [{date, val}, ...]} for every token
\* asked for; points without a date or a value are left out
FetchMetricForTokens(resp, tokens) ==
    [t \in {Upper(x) : x \in Range(tokens)} |->
        SelectSeq(SeriesOf(resp, Lower(t)),
                  LAMBDA pt : pt.date # NoneDate /\ pt.val # NoneVal)]

\* faulty variant: a cell that already holds a value keeps it
UpsertKeepFirst(table, key, tok, val) ==
    LET old == IF key \in DOMAIN table THEN table[key] ELSE EmptyMap
    IN  [k \in DOMAIN table \cup {key} |->
            IF k = key
            THEN [t \in DOMAIN old \cup {tok} |->
                     IF t \in DOMAIN old THEN old[t] ELSE val]
            ELSE table[k]]

\* faulty variant: the row is replaced by the new cell
UpsertReplaceRow(table, key, tok, val) ==
    [k \in DOMAIN table \cup {key} |->
        IF k = key THEN [t \in {tok} |-> val] ELSE table[k]]

\* rowmap = table.get(key, {}); rowmap[tok] = val; table[key] = rowmap
Upsert(table, key, tok, val) ==
    LET old == IF key \in DOMAIN table THEN table[key] ELSE EmptyMap
    IN  (key :> ((tok :> val) @@ old)) @@ table

RECURSIVE MergeSeries(_, _, _, _)
MergeSeries(table, metric, tok, series) ==
    IF series = <<>> THEN table
    ELSE MergeSeries(Upsert(table, <<Head(series).date, metric>>, tok,
                            Head(series).val),
                     metric, tok, Tail(series))

RECURSIVE MergeTokens(_, _, _, _)
MergeTokens(table, metric, toks, seriesByToken) ==
    IF toks = <<>> THEN table
    ELSE MergeTokens(MergeSeries(table, metric, Head(toks),
                                 seriesByToken[Head(toks)]),
                     metric, SelectSeq(Tail(toks), LAMBDA t : t # Head(toks)),
                     seriesByToken)

\* the merge loop of run(): every point of every token upserted, in order
Merge(table, metric, tokensUpper, seriesByToken) ==
    MergeTokens(table, metric, tokensUpper, seriesByToken)

(***************************************************************************)
(* art_dat.py                                                              *)
(***************************************************************************)
EQUITIES == <<"SBET", "EQ-MSTR">>

\* the labels of the model: the computed one, one composite, the three singles
\* the computed one is made of
UI_LABELS ==
    <<"mNAV", "MC / Nav", "Net Asset Value", "Number of Shares Outstanding",
      "Price">>

\* the labels of SINGLE_LABEL_KEYS, in the order of the dict
SingleLabels == <<"Net Asset Value", "Number of Shares Outstanding", "Price">>

\* the composite labels main() resolves
CompositeLabels == <<"MC / Nav">>

SINGLE_LABEL_KEYS(label) ==
    CASE label = "Net Asset Value" -> <<"NAV", "netassetvalue">>
      [] label = "Number of Shares Outstanding" ->
            <<"NUM_OF_SHARES", "SHARES_OUTSTANDING">>
      [] label = "Price" -> <<"PRICE", "equityprice", "stockprice">>

COMPOSITE_LABEL_KEYS(label) ==
    CASE label = "MC / Nav" -> <<"M_NAV", "MC_NAV">>

Derived == "DERIVED(PRICE*NUM_OF_SHARES/NAV)"

\* None, and the null of the mapping file
Null == "None"

\* ensure_eq_prefix on the names of the model
EnsureEqPrefix(x) ==
    IF x \in {"EQ-SBET", "EQ-MSTR", "EQ-OLD"} THEN x
    ELSE CASE x = "SBET" -> "EQ-SBET"
           [] x = "MSTR" -> "EQ-MSTR"
           [] x = "OLD" -> "EQ-OLD"

\* symbols = [ensure_eq_prefix(s) for s in EQUITIES]
Symbols == [i \in DOMAIN EQUITIES |-> EnsureEqPrefix(EQUITIES[i])]

\* norm: lowercase, everything but a-z0-9 removed, on the keys of the model
Norm(k) ==
    CASE k \in {"PRICE", "Price"} -> "price"
      [] k \in {"EquityPrice", "equityprice"} -> "equityprice"
      [] k = "stockprice" -> "stockprice"
      [] k = "NAV" -> "nav"
      [] k = "netassetvalue" -> "netassetvalue"
      [] k = "NUM_OF_SHARES" -> "numofshares"
      [] k = "SHARES_OUTSTANDING" -> "sharesoutstanding"
      [] k = "M_NAV" -> "mnav"
      [] k = "MC_NAV" -> "mcnav"
      [] k = "VOLUME" -> "volume"
      [] k = "SHARE_VOLUME" -> "sharevolume"
      [] k = "DERIVED(PRICE*NUM_OF_SHARES/NAV)" -> "derivedpricenumofsharesnav"

\* avail_norm = {norm(k): k for k in available}: the last key of a norm wins
AvailNorm(available) ==
    [n \in {Norm(available[i]) : i \in DOMAIN available} |->
        available[Max({i \in DOMAIN available : Norm(available[i]) = n})]]

\* faulty variant: the prior choice is not looked at
ChooseKeyIgnoringPrior(available, candidates, prior) ==
    LET availNorm == AvailNorm(available)
        hits      == {i \in DOMAIN candidates :
                        Norm(candidates[i]) \in DOMAIN availNorm}
    IN  IF hits # {} THEN availNorm[Norm(candidates[Min(hits)])]
        ELSE IF candidates # <<>> THEN candidates[1]
        ELSE Null

\* choose_key_from_candidates: the prior choice if still available, else the
\* first available candidate, else the first candidate, else None
ChooseKeyFromCandidates(available, candidates, prior) ==
    LET availNorm == AvailNorm(available)
        hits      == {i \in DOMAIN candidates :
                        Norm(candidates[i]) \in DOMAIN availNorm}
    IN  IF prior # Null /\ prior # "" /\ Norm(prior) \in DOMAIN availNorm
        THEN availNorm[Norm(prior)]
        ELSE IF hits # {} THEN availNorm[Norm(candidates[Min(hits)])]
        ELSE IF candidates # <<>> THEN candidates[1]
        ELSE Null

NoMapFile == [exists |-> FALSE, content |-> EmptyMap]

\* prior_map.setdefault(sym, {}).update(labmap) for one file
MergeMapFile(priorMap, file) ==
    IF ~file.exists THEN priorMap
    ELSE [sym \in DOMAIN priorMap \cup DOMAIN file.content |->
            IF sym \notin DOMAIN file.content THEN priorMap[sym]
            ELSE LET old == IF sym \in DOMAIN priorMap THEN priorMap[sym]
                            ELSE EmptyMap
                     new == file.content[sym]
                 IN  [l \in DOMAIN old \cup DOMAIN new |->
                        IF l \in DOMAIN new THEN new[l] ELSE old[l]]]

\* prior_map: the old mapping file, then the current one over it
PriorMap(oldFile, mapFile) ==
    MergeMapFile(MergeMapFile(EmptyMap, oldFile), mapFile)

\* (prior_map.get(sym) or {}).get(label)
PriorOf(priorMap, sym, label) ==
    IF sym \in DOMAIN priorMap /\ label \in DOMAIN priorMap[sym]
    THEN priorMap[sym][label]
    ELSE Null

\* mapping: the key of every label of every symbol
Mapping(priorMap, availableBySym) ==
    [sym \in Range(Symbols) |->
        [label \in Range(CompositeLabels) \cup Range(SingleLabels) \cup {"mNAV"} |->
            IF label = "mNAV" THEN Derived
            ELSE IF label \in Range(CompositeLabels)
            THEN ChooseKeyFromCandidates(availableBySym[sym],
                                         COMPOSITE_LABEL_KEYS(label),
                                         PriorOf(priorMap, sym, label))
            ELSE ChooseKeyFromCandidates(availableBySym[sym],
                                         SINGLE_LABEL_KEYS(label),
                                         PriorOf(priorMap, sym, label))]]

\* mapping[sym].get(label)
MappedKey(mapping, sym, label) ==
    IF sym \in DOMAIN mapping /\ label \in DOMAIN mapping[sym]
    THEN mapping[sym][label]
    ELSE Null

\* direct_keys: the symbols each concrete key is fetched for
DirectKeys(mapping) ==
    LET labels == (Range(UI_LABELS) \ {"mNAV"}) \cup
                  {"Price", "Number of Shares Outstanding", "Net Asset Value"}
        keys   == {MappedKey(mapping, sym, l) :
                     sym \in Range(Symbols), l \in labels} \ {Null, ""}
    IN  [k \in keys |->
            {sym \in Range(Symbols) :
                \E l \in labels : MappedKey(mapping, sym, l) = k}]

\* the precision of a division in the model, in fraction digits
FloatDigits == 12

\* price * shares, for the whole numbers the provider of the model serves
Mul(a, b) == [neg |-> a.neg # b.neg, int |-> a.int * b.int, frac |-> <<>>]

\* the fraction digits of r / b, by long division
RECURSIVE DivDigits(_, _, _)
DivDigits(r, b, n) ==
    IF n = 0 \/ r = 0 THEN <<>>
    ELSE <<(r * 10) \div b>> \o DivDigits((r * 10) % b, b, n - 1)

\* a / b for whole numbers, b not zero
Div(a, b) ==
    [neg  |-> a.neg # b.neg,
     int  |-> a.int \div b.int,
     frac |-> StripZeros(DivDigits(a.int % b.int, b.int, FloatDigits))]

\* one row of dat_data.csv folded into the table
DatReadRow(table, header, row) ==
    IF row.date = EmptyDate \/ row.metric = "" THEN table
    ELSE LET key    == <<row.date, row.metric>>
             old    == IF key \in DOMAIN table THEN table[key] ELSE EmptyMap
             cols   == {i \in DOMAIN header :
                          /\ header[i] \notin {"date", "metric"}
                          /\ Parsable(row.cells[i])}
             names  == {header[i] : i \in cols}
             lastOf(c) == Max({i \in cols : header[i] = c})
             cell   == [c \in DOMAIN old \cup names |->
                          IF c \in names THEN ParseFloat(row.cells[lastOf(c)])
                          ELSE old[c]]
         IN  [k \in DOMAIN table \cup {key} |->
                 IF k = key THEN cell ELSE table[k]]

RECURSIVE DatReadRows(_, _, _)
DatReadRows(table, header, rows) ==
    IF rows = <<>> THEN table
    ELSE DatReadRows(DatReadRow(table, header, Head(rows)), header, Tail(rows))

\* read_table
ReadTable(file) ==
    IF ~file.exists THEN EmptyMap
    ELSE DatReadRows(EmptyMap, file.header, file.rows)

\* sorted(table.keys(), key=lambda x: (x[0], x[1]))
DatKeyLess(a, b) ==
    \/ a[1] < b[1]
    \/ a[1] = b[1] /\ AlphaRank(a[2]) < AlphaRank(b[2])

RECURSIVE DatSortedKeys(_)
DatSortedKeys(S) ==
    IF S = {} THEN <<>>
    ELSE LET m == CHOOSE x \in S : \A y \in S \ {x} : DatKeyLess(x, y)
         IN  <<m>> \o DatSortedKeys(S \ {m})

\* art_dat.write_table
DatWriteTable(table, symbols) ==
    LET extras == SortedNames(ExistingTokens(table) \ Range(symbols))
        hs     == symbols \o extras
        keys   == DatSortedKeys(DOMAIN table)
    IN  [exists |-> TRUE,
         header |-> <<"date", "metric">> \o hs,
         rows   |-> [i \in DOMAIN keys |->
                       [date   |-> keys[i][1],
                        metric |-> keys[i][2],
                        cells  |-> <<EmptyText, EmptyText>> \o
                                   [j \in DOMAIN hs |->
                                      CellText(table[keys[i]], hs[j])]]]]

\* sorted(S) for a set of dates
RECURSIVE SortedDates(_)
SortedDates(S) ==
    IF S = {} THEN <<>>
    ELSE <<Min(S)>> \o SortedDates(S \ {Min(S)})

\* the provider's answer for a key and a symbol: the points it holds, by date
ProviderSeries(resp, key, sym) ==
    LET ds == SortedDates({c[3] : c \in {x \in DOMAIN resp :
                                             x[1] = key /\ x[2] = sym}})
    IN  [i \in DOMAIN ds |-> [date |-> ds[i], val |-> resp[<<key, sym, ds[i]>>]]]

\* fetch_series: {SYMBOL: [{date, val}, ...]} for the symbols asked for;
\* points without a date or a value are left out
FetchSeries(resp, key, syms) ==
    [sym \in syms |->
        SelectSeq(ProviderSeries(resp, key, sym),
                  LAMBDA pt : pt.date # NoneDate /\ pt.val # NoneVal)]

RECURSIVE DatMergeSeries(_, _, _, _)
DatMergeSeries(table, key, sym, series) ==
    IF series = <<>> THEN table
    ELSE DatMergeSeries(Upsert(table, <<Head(series).date, key>>, sym,
                               Head(series).val),
                        key, sym, Tail(series))

RECURSIVE DatMergeSymbols(_, _, _, _)
DatMergeSymbols(table, key, syms, seriesMap) ==
    IF syms = {} THEN table
    ELSE LET sym == CHOOSE x \in syms : TRUE
         IN  DatMergeSymbols(DatMergeSeries(table, key, sym, seriesMap[sym]),
                             key, syms \ {sym}, seriesMap)

\* the loop over direct_keys: fetch every key, upsert every point
RECURSIVE FetchAll(_, _, _, _)
FetchAll(table, keys, directKeys, resp) ==
    IF keys = {} THEN table
    ELSE LET key == CHOOSE x \in keys : TRUE
             sm  == FetchSeries(resp, key, directKeys[key])
         IN  FetchAll(DatMergeSymbols(table, key, DOMAIN sm, sm),
                      keys \ {key}, directKeys, resp)

\* all_dates
AllDates(table) == SortedDates({k[1] : k \in DOMAIN table})

\* get_cell: <<>> is None
GetCell(table, d, key, sym) ==
    IF key \in {Null, ""} THEN <<>>
    ELSE IF <<d, key>> \in DOMAIN table /\ sym \in DOMAIN table[<<d, key>>]
    THEN <<table[<<d, key>>][sym]>>
    ELSE <<>>

\* faulty variant: a date without a value of its own gets none
FillDatesNoCarry(table, skey, sym, dates, lastVal) ==
    [d \in Range(dates) |-> GetCell(table, d, skey, sym)]

\* the forward fill of one symbol: the dates in order, last_val carried
RECURSIVE FillDates(_, _, _, _, _)
FillDates(table, skey, sym, dates, lastVal) ==
    IF dates = <<>> THEN EmptyMap
    ELSE LET cur  == GetCell(table, Head(dates), skey, sym)
             last == IF cur # <<>> THEN cur ELSE lastVal
             rest == FillDates(table, skey, sym, Tail(dates), last)
         IN  [d \in {Head(dates)} \cup DOMAIN rest |->
                IF d = Head(dates) THEN last ELSE rest[d]]

\* ffilled_shares[(d, sym)]
FfilledShares(table, mapping) ==
    LET bySym == [sym \in Range(Symbols) |->
                    FillDates(table,
                              MappedKey(mapping, sym, "Number of Shares Outstanding"),
                              sym, AllDates(table), <<>>)]
    IN  [c \in {<<d, sym>> : d \in Range(AllDates(table)), sym \in Range(Symbols)} |->
            bySym[c[2]][c[1]]]

\* faulty variant: the three inputs are tested for truth, so a zero price or a zero
\* number of shares counts as missing
MnavDefinedByTruth(price, shares, nav) ==
    /\ price # <<>> /\ ~IsZero(price[1])
    /\ shares # <<>> /\ ~IsZero(shares[1])
    /\ nav # <<>> /\ ~IsZero(nav[1])

\* (price is not None) and (shares is not None) and (nav not in (None, 0.0))
MnavDefined(price, shares, nav) ==
    price # <<>> /\ shares # <<>> /\ nav # <<>> /\ ~IsZero(nav[1])

\* the mNAV row of a date
MnavRow(table, mapping, ffilled, d) ==
    LET price(sym) == GetCell(table, d, MappedKey(mapping, sym, "Price"), sym)
        nav(sym)   == GetCell(table, d,
                              MappedKey(mapping, sym, "Net Asset Value"), sym)
        has        == {sym \in Range(Symbols) :
                         MnavDefined(price(sym), ffilled[<<d, sym>>], nav(sym))}
    IN  [sym \in has |->
            Div(Mul(price(sym)[1], ffilled[<<d, sym>>][1]), nav(sym)[1])]

\* the row of a composite or single label on a date: the mapped key's cells
LabelRow(table, mapping, label, d) ==
    LET has == {sym \in Range(Symbols) :
                  GetCell(table, d, MappedKey(mapping, sym, label), sym) # <<>>}
    IN  [sym \in has |->
            GetCell(table, d, MappedKey(mapping, sym, label), sym)[1]]

\* final_rows: the rows written, by (date, label); empty rows are left out
FinalRows(table, mapping, ffilled) ==
    LET row(k)  == IF k[2] = "mNAV" THEN MnavRow(table, mapping, ffilled, k[1])
                   ELSE LabelRow(table, mapping, k[2], k[1])
        labels  == {"mNAV"} \cup Range(CompositeLabels) \cup Range(UI_LABELS)
        keys    == {k \in Range(AllDates(table)) \X labels : row(k) # EmptyMap}
    IN  [k \in keys |-> row(k)]

(***************************************************************************)
(* State                                                                   *)
(***************************************************************************)
VARIABLES
    coinFile,      \* docs/data/token_data.csv
    coinLoaded,    \* run(): the table read at the start of the last run
    coinStart,     \* run(): effective_start of each metric in the last run
    coinPayload,   \* run(): series_by_token of each metric in the last run
    coinTable,     \* run(): the table after the merges of the last run
    coinPc         \* "idle" between runs, "done" when run() has returned

coinVars == <<coinFile, coinLoaded, coinStart, coinPayload, coinTable, coinPc>>

VARIABLES
    cdTable,       \* a table as art_coin builds it
    cdFile,        \* write_table(cdTable)
    cdBack,        \* read_existing_table(cdFile)
    cdFile2,       \* write_table(cdBack)
    cdPc           \* "built", "written", "read", "rewritten"

cdVars == <<cdTable, cdFile, cdBack, cdFile2, cdPc>>

VARIABLES
    datFile,       \* docs/data/dat_data.csv
    datMapFile,    \* docs/data/dat_data_mapping.json
    datOldMapFile, \* docs/data/dat_equities_mapping.json
    datAvail,      \* main(): available_by_sym of the last run
    datPrior,      \* main(): prior_map of the last run
    datMapping,    \* main(): mapping of the last run
    datLoaded,     \* main(): the table read at the start of the last run
    datTable,      \* main(): the table after the fetches of the last run
    datFfilled,    \* main(): ffilled_shares of the last run
    datFinal,      \* main(): final_rows of the last run
    datPc          \* "idle" between runs, "done" when main() has returned

datVars == <<datFile, datMapFile, datOldMapFile, datAvail, datPrior, datMapping,
             datLoaded, datTable, datFfilled, datFinal, datPc>>

VARIABLES
    augFile,    \* docs/data/dat_data.csv as augment_dat_with_mnav.py finds and leaves it
    augBefore,  \* the file the last run of the script found
    augRuns,    \* the runs of the script so far
    augExit     \* the status of the last run: 1 after sys.exit(1)

augVars == <<augFile, augBefore, augRuns, augExit>>

VARIABLES
    wrDest,  \* the destination path of write_table
    wrOld,   \* its content before the write
    wrNew,   \* the content write_table is writing
    wrPc     \* "start", "open", "rows", "closed", "crashed"

wrVars == <<wrDest, wrOld, wrNew, wrPc>>

VARIABLES
    mainExit,  \* the exit status of the script: 2 after sys.exit(2)
    mainResp   \* what client.fetch_metrics did for each metric of the run

mainVars == <<mainExit, mainResp>>

VARIABLES
    etfBtc,      \* the Bitcoin table the site serves
    etfEth,      \* the Ethereum table the site serves
    etfEdited,   \* the column whose values the site changed ("" if none)
    etfUsed,     \* used_cols of the last run, by asset
    etfBound,    \* the ticker each used column was taken for, by asset
    etfSite,     \* site_total_col of the last run, by asset ("" is None)
    etfOut,      \* the rows of docs/data/etf_data.csv
    etfPrevOut,  \* the rows the run before the last wrote
    etfRuns,     \* the runs of the script so far
    etfPc        \* "idle" between runs, "done" when build_and_write has returned

etfVars == <<etfBtc, etfEth, etfEdited, etfUsed, etfBound, etfSite, etfOut,
             etfPrevOut, etfRuns, etfPc>>

VARIABLES
    provHeld,   \* the points the provider holds: [metric, sym, date, val]
    provToday   \* date.today()

provVars == <<provHeld, provToday>>

vars == <<coinVars, cdVars, datVars, augVars, wrVars, mainVars, etfVars, provVars>>

(***************************************************************************)
(* Inputs of the model                                                     *)
(***************************************************************************)
\* the dates the provider serves
Days == {1, 2}

\* 2^-11 = 0.00048828125: eleven fraction digits, a tie in the tenth place
Tiny == [neg |-> FALSE, int |-> 0, frac |-> <<0, 0, 0, 4, 8, 8, 2, 8, 1, 2, 5>>]

CoinVals == {Num(1), Tiny}

\* the longest response of the provider, in points
MaxPts == 2

SeqsUpTo(S, n) == UNION {[1..k -> S] : k \in 0..n}

\* the provider's responses: points of the requested symbols, as served
Responses ==
    SeqsUpTo([sym : {Lower(Upper(t)) : t \in Range(TOKENS)},
              date : Days, val : CoinVals], MaxPts)

\* a file written under an earlier configuration (metric mc, tokens SOL and
\* ADA in that order)
LegacyFile ==
    WriteTable([k \in {<<2, "mc">>} |-> [t \in {"SOL", "ADA"} |-> Num(1)]],
               <<"SOL", "ADA">>)

(***************************************************************************)
(* art_coin.run()                                                          *)
(***************************************************************************)
\* the loop over METRICS: start date, fetch, merge
RECURSIVE RunMetrics(_, _, _, _)
RunMetrics(acc, metrics, tokensUpper, resp) ==
    IF metrics = <<>> THEN acc
    ELSE LET metric == Head(metrics)
             start  == EffectiveStart(acc.table, metric, tokensUpper)
             series == FetchMetricForTokens(resp[metric], tokensUpper)
             merged == Merge(acc.table, metric, tokensUpper, series)
         IN  RunMetrics([table   |-> merged,
                         start   |-> [m \in DOMAIN acc.start \cup {metric} |->
                                        IF m = metric THEN start ELSE acc.start[m]],
                         payload |-> [m \in DOMAIN acc.payload \cup {metric} |->
                                        IF m = metric THEN series
                                        ELSE acc.payload[m]]],
                        Tail(metrics), tokensUpper, resp)

RunCoin ==
    /\ coinPc = "idle"
    /\ \E resp \in [Range(METRICS) -> Responses] :
       \E tokensUpper \in {TokensUpper(TOKENS)} :
       \E loaded \in {ReadExistingTable(coinFile)} :
       \E out \in {RunMetrics([table |-> loaded, start |-> EmptyMap,
                               payload |-> EmptyMap],
                              METRICS, tokensUpper, resp)} :
          /\ coinLoaded'  = loaded
          /\ coinStart'   = out.start
          /\ coinPayload' = out.payload
          /\ coinTable'   = out.table
          /\ coinFile'    = WriteTable(out.table, tokensUpper)
          /\ coinPc'      = "done"
          /\ UNCHANGED <<cdVars, datVars, augVars, wrVars, mainVars, etfVars, provVars>>

\* the process ends: the locals of run() are gone, the file stays
ExitCoin ==
    /\ coinPc = "done"
    /\ coinPc' = "idle"
    /\ coinLoaded' = EmptyMap
    /\ coinStart' = EmptyMap
    /\ coinPayload' = EmptyMap
    /\ coinTable' = EmptyMap
    /\ UNCHANGED <<coinFile, cdVars, datVars, augVars, wrVars, mainVars, etfVars, provVars>>

InitCoin ==
    /\ coinFile \in {NoFile, LegacyFile}
    /\ coinLoaded = EmptyMap
    /\ coinStart = EmptyMap
    /\ coinPayload = EmptyMap
    /\ coinTable = EmptyMap
    /\ coinPc = "idle"
    \* the write/read round trip is not running
    /\ cdTable = EmptyMap
    /\ cdFile = NoFile
    /\ cdBack = EmptyMap
    /\ cdFile2 = NoFile
    /\ cdPc = "off"
    \* the equity script is not running and has left no file
    /\ datFile = NoFile
    /\ datMapFile = NoMapFile
    /\ datOldMapFile = NoMapFile
    /\ datAvail = EmptyMap
    /\ datPrior = EmptyMap
    /\ datMapping = EmptyMap
    /\ datLoaded = EmptyMap
    /\ datTable = EmptyMap
    /\ datFfilled = EmptyMap
    /\ datFinal = EmptyMap
    /\ datPc = "off"
    \* augment_dat_with_mnav.py has not run and finds no file
    /\ augFile = NoFile
    /\ augBefore = NoFile
    /\ augRuns = 0
    /\ augExit = 0
    \* write_table is not being followed step by step
    /\ wrDest = NoFile
    /\ wrOld = NoFile
    /\ wrNew = NoFile
    /\ wrPc = "off"
    \* no run with a fallible provider has been made
    /\ mainExit = 0
    /\ mainResp = EmptyMap
    \* fs_etf.py has not run
    /\ etfBtc = NoTable
    /\ etfEth = NoTable
    /\ etfEdited = ""
    /\ etfUsed = EmptyMap
    /\ etfBound = EmptyMap
    /\ etfSite = EmptyMap
    /\ etfOut = <<>>
    /\ etfPrevOut = <<>>
    /\ etfRuns = 0
    /\ etfPc = "off"
    \* the provider's holdings are not followed
    /\ provHeld = {}
    /\ provToday = 0

NextCoin == RunCoin \/ ExitCoin

SpecCoin == InitCoin /\ [][NextCoin]_vars

(***************************************************************************)
(* Claims on art_coin.run()                                                *)
(***************************************************************************)
\* the cells of a table: <<date, metric, token>>
Cells(table) ==
    UNION {{<<k[1], k[2], t>> : t \in DOMAIN table[k]} : k \in DOMAIN table}

CellVal(table, c) == table[<<c[1], c[2]>>][c[3]]

\* the payload of the last run holds a point for exactly this cell
PayloadHas(c) ==
    /\ c[2] \in DOMAIN coinPayload
    /\ c[3] \in DOMAIN coinPayload[c[2]]
    /\ \E i \in DOMAIN coinPayload[c[2]][c[3]] :
          coinPayload[c[2]][c[3]][i].date = c[1]

\* C1: the merge is additive: every (date, metric, token) cell of the table
\* read at the start of a run is a cell of the merged table, with its value
\* unless the payload holds a point for exactly that cell; no key of the
\* table and no token entry of a row is removed.
C1_MergeAdditive ==
    coinPc = "done" =>
        /\ DOMAIN coinLoaded \subseteq DOMAIN coinTable
        /\ \A k \in DOMAIN coinLoaded :
              DOMAIN coinLoaded[k] \subseteq DOMAIN coinTable[k]
        /\ \A c \in Cells(coinLoaded) :
              /\ c \in Cells(coinTable)
              /\ PayloadHas(c) \/ CellVal(coinTable, c) = CellVal(coinLoaded, c)

\* a run that overwrote one stored cell and left another stored cell alone
C1_Witness ==
    /\ coinPc = "done"
    /\ \E c \in Cells(coinLoaded) :
          PayloadHas(c) /\ CellVal(coinTable, c) # CellVal(coinLoaded, c)
    /\ \E c \in Cells(coinLoaded) :
          ~PayloadHas(c) /\ c[2] = "price"
    /\ \E c \in Cells(coinLoaded) : c[3] = "SOL"

\* the requested tokens, as the columns name them
Requested == {Upper(t) : t \in Range(TOKENS)}

\* the dates of the rows the loaded table has for a metric
LoadedDates(S) == {k[1] : k \in {x \in DOMAIN coinLoaded : x[2] = S}}

\* a requested token without a value in any row of the metric
SomeTokenWithoutValue(S) ==
    \E t \in Requested : ~\E c \in Cells(coinLoaded) : c[2] = S /\ c[3] = t

\* C3: the fetch of a metric S starts at 1970-01-01 if the table has no row
\* for S; else at 1970-01-01 if some requested token has no value in any row
\* of S; else at (the latest date among the rows of S) + 1 day.
C3_ResumeStart ==
    coinPc = "done" =>
        \A i \in DOMAIN METRICS :
            LET S == METRICS[i]
            IN  coinStart[S] =
                  IF LoadedDates(S) = {} THEN Epoch
                  ELSE IF SomeTokenWithoutValue(S) THEN Epoch
                  ELSE Max(LoadedDates(S)) + 1

\* a run that resumed at D+1 while a later date was stored for another metric
C3_Witness ==
    /\ coinPc = "done"
    /\ LoadedDates("price") = {1}
    /\ ~SomeTokenWithoutValue("price")
    /\ <<2, "mc">> \in DOMAIN coinLoaded
    /\ coinStart["price"] = 2

\* the value of the last point a series holds for a date
LastPointVal(series, d) ==
    series[Max({i \in DOMAIN series : series[i].date = d})].val

\* C4: merging the payload of a run a second time leaves the merged table as
\* it is (same keys, same token entries, same values), and where the payload
\* holds the same (date, token) twice the cell holds the value of the last
\* such point in payload order.
C4_MergeIdempotent ==
    coinPc = "done" =>
        \A i \in DOMAIN METRICS :
            LET S == METRICS[i]
            IN  /\ Merge(coinTable, S, TokensUpper(TOKENS), coinPayload[S])
                     = coinTable
                /\ \A t \in DOMAIN coinPayload[S] :
                      \A j \in DOMAIN coinPayload[S][t] :
                          LET d == coinPayload[S][t][j].date
                          IN  CellVal(coinTable, <<d, S, t>>)
                                = LastPointVal(coinPayload[S][t], d)

\* a payload that holds one (date, token) twice, with two values, merged
\* over a stored value
C4_Witness ==
    /\ coinPc = "done"
    /\ \E t \in DOMAIN coinPayload["price"] :
          LET ser == coinPayload["price"][t]
          IN  /\ Len(ser) = 2
              /\ ser[1].date = ser[2].date
              /\ ser[1].val # ser[2].val
              /\ <<ser[1].date, "price", t>> \in Cells(coinLoaded)

(***************************************************************************)
(* write_table followed by read_existing_table                             *)
(***************************************************************************)
\* 1.5
OneAndHalf == [neg |-> FALSE, int |-> 1, frac |-> <<5>>]

\* 0.99999999996: rounds up into the integer part
AlmostOne ==
    [neg |-> FALSE, int |-> 0, frac |-> <<9, 9, 9, 9, 9, 9, 9, 9, 9, 9, 6>>]

\* -0.00000000004: rounds to -0.0000000000
MinusTiny ==
    [neg |-> TRUE, int |-> 0, frac |-> <<0, 0, 0, 0, 0, 0, 0, 0, 0, 0, 4>>]

\* 3 * 2^-11 = 0.00146484375: a tie in the tenth place after an odd digit
ThreeTiny ==
    [neg |-> FALSE, int |-> 0, frac |-> <<0, 0, 1, 4, 6, 4, 8, 4, 3, 7, 5>>]

CodecVals == {OneAndHalf, AlmostOne, MinusTiny, Tiny, ThreeTiny}

CodecKeys == {<<1, "price">>, <<2, "mc">>}

\* one requested token and one token met in an earlier file
CodecTokens == {"ETH", "SOL"}

CodecRowMaps == UNION {[S -> CodecVals] : S \in SUBSET CodecTokens}

CodecTables == UNION {[K -> CodecRowMaps] : K \in SUBSET CodecKeys}

InitCodec ==
    /\ cdTable \in CodecTables
    /\ cdFile = NoFile
    /\ cdBack = EmptyMap
    /\ cdFile2 = NoFile
    /\ cdPc = "built"
    \* the coin script is not running
    /\ coinFile = NoFile
    /\ coinLoaded = EmptyMap
    /\ coinStart = EmptyMap
    /\ coinPayload = EmptyMap
    /\ coinTable = EmptyMap
    /\ coinPc = "off"
    \* the equity script is not running and has left no file
    /\ datFile = NoFile
    /\ datMapFile = NoMapFile
    /\ datOldMapFile = NoMapFile
    /\ datAvail = EmptyMap
    /\ datPrior = EmptyMap
    /\ datMapping = EmptyMap
    /\ datLoaded = EmptyMap
    /\ datTable = EmptyMap
    /\ datFfilled = EmptyMap
    /\ datFinal = EmptyMap
    /\ datPc = "off"
    \* augment_dat_with_mnav.py has not run and finds no file
    /\ augFile = NoFile
    /\ augBefore = NoFile
    /\ augRuns = 0
    /\ augExit = 0
    \* write_table is not being followed step by step
    /\ wrDest = NoFile
    /\ wrOld = NoFile
    /\ wrNew = NoFile
    /\ wrPc = "off"
    \* no run with a fallible provider has been made
    /\ mainExit = 0
    /\ mainResp = EmptyMap
    \* fs_etf.py has not run
    /\ etfBtc = NoTable
    /\ etfEth = NoTable
    /\ etfEdited = ""
    /\ etfUsed = EmptyMap
    /\ etfBound = EmptyMap
    /\ etfSite = EmptyMap
    /\ etfOut = <<>>
    /\ etfPrevOut = <<>>
    /\ etfRuns = 0
    /\ etfPc = "off"
    \* the provider's holdings are not followed
    /\ provHeld = {}
    /\ provToday = 0

CodecWrite ==
    /\ cdPc = "built"
    /\ cdFile' = WriteTable(cdTable, TokensUpper(TOKENS))
    /\ cdPc' = "written"
    /\ UNCHANGED <<cdTable, cdBack, cdFile2, coinVars, datVars, augVars, wrVars, mainVars, etfVars, provVars>>

CodecRead ==
    /\ cdPc = "written"
    /\ cdBack' = ReadExistingTable(cdFile)
    /\ cdPc' = "read"
    /\ UNCHANGED <<cdTable, cdFile, cdFile2, coinVars, datVars, augVars, wrVars, mainVars, etfVars, provVars>>

CodecRewrite ==
    /\ cdPc = "read"
    /\ cdFile2' = WriteTable(cdBack, TokensUpper(TOKENS))
    /\ cdPc' = "rewritten"
    /\ UNCHANGED <<cdTable, cdFile, cdBack, coinVars, datVars, augVars, wrVars, mainVars, etfVars, provVars>>

NextCodec == CodecWrite \/ CodecRead \/ CodecRewrite

SpecCodec == InitCodec /\ [][NextCodec]_vars

\* the first n fraction digits of a value
DigitsTo(v, n) == SubSeq(v.frac \o Zeros(n), 1, n)

\* b is a to the tenth fraction digit: the same sign, and the same digits to
\* the tenth place or one unit of the tenth place more
SameToPrecision(a, b) ==
    LET da == DigitsTo(a, FracDigits)
        db == DigitsTo(b, FracDigits)
    IN  /\ a.neg = b.neg
        /\ Len(b.frac) <= FracDigits
        /\ Len(a.frac) <= FracDigits => b = a
        /\ \/ a.int = b.int /\ da = db
           \/ /\ a.int = b.int
              /\ Front(da) = Front(db)
              /\ db[FracDigits] = da[FracDigits] + 1
           \/ /\ a.int = b.int
              /\ \E i \in 1..(FracDigits - 1) :
                    /\ SubSeq(da, 1, i - 1) = SubSeq(db, 1, i - 1)
                    /\ db[i] = da[i] + 1
                    /\ \A j \in (i + 1)..FracDigits : da[j] = 9 /\ db[j] = 0
           \/ /\ b.int = a.int + 1
              /\ da = [i \in 1..FracDigits |-> 9]
              /\ db = Zeros(FracDigits)

\* C5: a table written and read back has the same (date, metric) keys, every
\* cell of the table is a cell of the table read back with the same value to
\* the tenth fraction digit, every cell absent from the table is absent from
\* the one read back, and writing the table read back gives the same file.
C5_RoundTrip ==
    /\ cdPc \in {"read", "rewritten"} =>
          /\ DOMAIN cdBack = DOMAIN cdTable
          /\ \A k \in DOMAIN cdTable :
                /\ DOMAIN cdBack[k] = DOMAIN cdTable[k]
                /\ \A t \in DOMAIN cdTable[k] :
                      SameToPrecision(cdTable[k][t], cdBack[k][t])
    /\ cdPc = "rewritten" => cdFile2 = cdFile

\* a table with a value that rounds into the integer part, a value that
\* rounds to minus zero and an absent cell, written, read and written again
C5_Witness ==
    /\ cdPc = "rewritten"
    /\ DOMAIN cdTable = CodecKeys
    /\ cdTable[<<1, "price">>] = [t \in {"ETH"} |-> AlmostOne]
    /\ cdTable[<<2, "mc">>] = [t \in {"SOL"} |-> MinusTiny]
    /\ cdBack[<<1, "price">>] = [t \in {"ETH"} |-> Num(1)]
    /\ "SOL" \notin DOMAIN cdBack[<<1, "price">>]

(***************************************************************************)
(* art_dat.main()                                                          *)
(***************************************************************************)
\* main(), for the keys the provider lists for each symbol and one of the
\* answers the provider can give
DatRun(availableBySym, answers) ==
    /\ datPc = "idle"
    /\ \E priorMap \in {PriorMap(datOldMapFile, datMapFile)} :
       \E mapping \in {Mapping(priorMap, availableBySym)} :
       \E loaded \in {ReadTable(datFile)} :
       \E direct \in {DirectKeys(mapping)} :
       \E resp \in answers :
       \E table \in {FetchAll(loaded, DOMAIN direct, direct, resp)} :
       \E ffilled \in {FfilledShares(table, mapping)} :
       \E final \in {FinalRows(table, mapping, ffilled)} :
          /\ datAvail'   = availableBySym
          /\ datPrior'   = priorMap
          /\ datMapping' = mapping
          /\ datLoaded'  = loaded
          /\ datTable'   = table
          /\ datFfilled' = ffilled
          /\ datFinal'   = final
          /\ datFile'    = DatWriteTable(final, Symbols)
          /\ datMapFile' = [exists |-> TRUE, content |-> mapping]
          /\ datPc'      = "done"
          /\ UNCHANGED <<datOldMapFile, coinVars, cdVars, augVars, wrVars, mainVars, etfVars, provVars>>

\* the process ends: the locals of main() are gone, the files stay
ExitDat ==
    /\ datPc = "done"
    /\ datPc' = "idle"
    /\ datAvail' = EmptyMap
    /\ datPrior' = EmptyMap
    /\ datMapping' = EmptyMap
    /\ datLoaded' = EmptyMap
    /\ datTable' = EmptyMap
    /\ datFfilled' = EmptyMap
    /\ datFinal' = EmptyMap
    /\ UNCHANGED <<datFile, datMapFile, datOldMapFile, coinVars, cdVars, augVars, wrVars, mainVars, etfVars, provVars>>

\* the dates of the equity model
DatDays == {1, 2, 3}

\* the answers of list_supported_metrics the model draws from: <<>> is a
\* failed or refused enumeration
AvailUnknown == <<>>

AvailPlain == <<"PRICE", "NAV", "NUM_OF_SHARES", "M_NAV">>

AvailAlias == <<"EquityPrice", "NAV", "NUM_OF_SHARES">>

AvailBoth == <<"EquityPrice", "PRICE", "NAV", "NUM_OF_SHARES">>

AvailOther == <<"VOLUME">>

AvailTwice == <<"PRICE", "Price", "NAV", "NUM_OF_SHARES">>

AvailChoices(sym) ==
    IF sym = "EQ-SBET"
    THEN {AvailUnknown, AvailPlain, AvailAlias, AvailBoth, AvailOther, AvailTwice}
    ELSE {AvailUnknown, AvailPlain}

\* the keys a price is served under
PriceKeys == {"PRICE", "EquityPrice", "Price"}

\* the provider's answers of the mapping model: a price, a number of shares
\* and a net asset value of EQ-SBET on one day, or nothing
DayAnswer(d) ==
    [c \in (PriceKeys \cup {"NUM_OF_SHARES", "NAV"}) \X {"EQ-SBET"} \X {d} |->
        IF c[1] \in PriceKeys THEN Num(2)
        ELSE IF c[1] = "NAV" THEN Num(3) ELSE Num(1)]

MapAnswers == {EmptyMap, DayAnswer(1), DayAnswer(2)}

\* a mapping file of an earlier version of the script: a symbol since removed
\* from EQUITIES and a label since removed from the label lists
LegacyMap ==
    [exists  |-> TRUE,
     content |-> [sym \in {"EQ-OLD", "EQ-SBET"} |->
                    IF sym = "EQ-OLD" THEN [l \in {"Price"} |-> "PRICE"]
                    ELSE [l \in {"Stock Trading Volume"} |-> "SHARE_VOLUME"]]]

\* the mapping file a run wrote when EQUITIES was ["OLD"]
EarlierMap ==
    [exists  |-> TRUE,
     content |-> [sym \in {"EQ-OLD"} |->
                    [l \in Range(CompositeLabels) \cup Range(SingleLabels) \cup {"mNAV"} |->
                        IF l = "mNAV" THEN Derived
                        ELSE IF l \in Range(CompositeLabels)
                        THEN COMPOSITE_LABEL_KEYS(l)[1]
                        ELSE SINGLE_LABEL_KEYS(l)[1]]]]

InitDat ==
    /\ datFile = NoFile
    /\ datMapFile \in {NoMapFile, EarlierMap}
    /\ datOldMapFile \in {NoMapFile, LegacyMap}
    /\ datAvail = EmptyMap
    /\ datPrior = EmptyMap
    /\ datMapping = EmptyMap
    /\ datLoaded = EmptyMap
    /\ datTable = EmptyMap
    /\ datFfilled = EmptyMap
    /\ datFinal = EmptyMap
    /\ datPc = "idle"
    \* the coin script is not running
    /\ coinFile = NoFile
    /\ coinLoaded = EmptyMap
    /\ coinStart = EmptyMap
    /\ coinPayload = EmptyMap
    /\ coinTable = EmptyMap
    /\ coinPc = "off"
    \* the write/read round trip is not running
    /\ cdTable = EmptyMap
    /\ cdFile = NoFile
    /\ cdBack = EmptyMap
    /\ cdFile2 = NoFile
    /\ cdPc = "off"
    \* augment_dat_with_mnav.py has not run and finds no file
    /\ augFile = NoFile
    /\ augBefore = NoFile
    /\ augRuns = 0
    /\ augExit = 0
    \* write_table is not being followed step by step
    /\ wrDest = NoFile
    /\ wrOld = NoFile
    /\ wrNew = NoFile
    /\ wrPc = "off"
    \* no run with a fallible provider has been made
    /\ mainExit = 0
    /\ mainResp = EmptyMap
    \* fs_etf.py has not run
    /\ etfBtc = NoTable
    /\ etfEth = NoTable
    /\ etfEdited = ""
    /\ etfUsed = EmptyMap
    /\ etfBound = EmptyMap
    /\ etfSite = EmptyMap
    /\ etfOut = <<>>
    /\ etfPrevOut = <<>>
    /\ etfRuns = 0
    /\ etfPc = "off"
    \* the provider's holdings are not followed
    /\ provHeld = {}
    /\ provToday = 0

MainDat ==
    \E availableBySym \in [Range(Symbols) -> UNION {AvailChoices(x) : x \in Range(Symbols)}] :
        /\ \A x \in Range(Symbols) : availableBySym[x] \in AvailChoices(x)
        /\ DatRun(availableBySym, MapAnswers)

NextDat == MainDat \/ ExitDat

SpecDat == InitDat /\ [][NextDat]_vars

(***************************************************************************)
(* Claims on art_dat.main()                                                *)
(***************************************************************************)
\* C2: a (date, label, symbol) cell of a label other than mNAV that the
\* file holds before a run is a cell of the file the run writes.
C2_PersistedCellKept ==
    datPc = "done" =>
        \A c \in Cells(datLoaded) :
            c[2] # "mNAV" => c \in Cells(ReadTable(datFile))

\* the labels resolved through a candidate list
ResolvedLabels == Range(CompositeLabels) \cup Range(SingleLabels)

CandidatesOf(label) ==
    IF label \in Range(CompositeLabels) THEN COMPOSITE_LABEL_KEYS(label)
    ELSE SINGLE_LABEL_KEYS(label)

\* the places of the listed keys of a symbol that a key normalizes to
MatchesOf(sym, k) ==
    {i \in DOMAIN datAvail[sym] : Norm(datAvail[sym][i]) = Norm(k)}

\* the prior choice of the last run normalizes to a listed key
PriorAvailable(sym, label) ==
    /\ PriorOf(datPrior, sym, label) # Null
    /\ MatchesOf(sym, PriorOf(datPrior, sym, label)) # {}

\* C6: when the key the mapping file recorded for (symbol, label) normalizes
\* to a key the provider lists for the symbol, the run chooses that listed
\* key (the last listed one of that normal form), also when a candidate
\* earlier in the candidate list is listed too.
C6_KeyStability ==
    datPc = "done" =>
        \A sym \in Range(Symbols) : \A label \in ResolvedLabels :
            PriorAvailable(sym, label) =>
                datMapping[sym][label] =
                    datAvail[sym][Max(MatchesOf(sym, PriorOf(datPrior, sym, label)))]

\* a run that kept EquityPrice, which an earlier run had written, while
\* PRICE, the first candidate, was listed too
C6_Witness ==
    /\ datPc = "done"
    /\ datAvail["EQ-SBET"] = AvailBoth
    /\ "EQ-SBET" \in DOMAIN datPrior
    /\ "MC / Nav" \in DOMAIN datPrior["EQ-SBET"]
    /\ PriorOf(datPrior, "EQ-SBET", "Price") = "EquityPrice"
    /\ datMapping["EQ-SBET"]["Price"] = "EquityPrice"

\* C7: with a known, non-empty list of keys none of which the prior choice
\* or a candidate normalizes to, the chosen key is null.
C7_NullWhenNoneAvailable ==
    datPc = "done" =>
        \A sym \in Range(Symbols) : \A label \in ResolvedLabels :
            ( /\ datAvail[sym] # <<>>
              /\ ~PriorAvailable(sym, label)
              /\ \A i \in DOMAIN CandidatesOf(label) :
                    MatchesOf(sym, CandidatesOf(label)[i]) = {} )
            => datMapping[sym][label] = Null

\* C8: every (symbol, label) entry of the prior mapping files whose symbol
\* or label the run does not resolve is an entry of the mapping file the run
\* writes, with its prior value.
C8_MappingMerged ==
    datPc = "done" =>
        \A sym \in DOMAIN datPrior : \A label \in DOMAIN datPrior[sym] :
            (sym \notin Range(Symbols) \/ label \notin ResolvedLabels \cup {"mNAV"})
            => /\ sym \in DOMAIN datMapFile.content
               /\ label \in DOMAIN datMapFile.content[sym]
               /\ datMapFile.content[sym][label] = datPrior[sym][label]

(***************************************************************************)
(* One run of art_dat.main() over every history of three days              *)
(***************************************************************************)
\* what the provider holds for EQ-SBET on a day: a point without a value, or
\* a whole number
SharesVals == {NoneVal, Num(1), Num(3)}

\* a day's price and net asset value of EQ-SBET: both, neither, one of them,
\* a zero net asset value, a zero price
PriceNavVals ==
    {<<Num(2), Num(3)>>, <<NoneVal, NoneVal>>, <<NoneVal, Num(3)>>,
     <<Num(2), NoneVal>>, <<Num(2), Num(0)>>, <<Num(0), Num(3)>>}

\* what the provider holds for EQ-MSTR: shares on day 2 only, a price and a
\* net asset value on days 2 and 3
MstrAnswer ==
    [c \in ((PriceKeys \cup {"NAV"}) \X {"EQ-MSTR"} \X {2, 3})
           \cup {<<"NUM_OF_SHARES", "EQ-MSTR", 2>>} |->
        IF c[1] = "NAV" THEN Num(1) ELSE Num(2)]

\* the provider's answer holding the three histories of EQ-SBET
SbetAnswer(pnf, sf) ==
    [c \in (PriceKeys \cup {"NUM_OF_SHARES", "NAV"}) \X {"EQ-SBET"} \X DatDays |->
        IF c[1] \in PriceKeys THEN pnf[c[3]][1]
        ELSE IF c[1] = "NAV" THEN pnf[c[3]][2] ELSE sf[c[3]]]

\* the file an earlier run wrote when the provider listed the key Price
EarlierDatFile ==
    DatWriteTable(
        [k \in {<<1, "Price">>, <<1, "Net Asset Value">>,
                <<1, "Number of Shares Outstanding">>} |->
            [sym \in {"EQ-SBET"} |->
                IF k[2] = "Price" THEN Num(2)
                ELSE IF k[2] = "Net Asset Value" THEN Num(3) ELSE Num(1)]],
        Symbols)

InitDerive ==
    /\ datFile \in {NoFile, EarlierDatFile}
    /\ datMapFile = NoMapFile
    /\ datOldMapFile = NoMapFile
    /\ datAvail = EmptyMap
    /\ datPrior = EmptyMap
    /\ datMapping = EmptyMap
    /\ datLoaded = EmptyMap
    /\ datTable = EmptyMap
    /\ datFfilled = EmptyMap
    /\ datFinal = EmptyMap
    /\ datPc = "idle"
    \* the coin script is not running
    /\ coinFile = NoFile
    /\ coinLoaded = EmptyMap
    /\ coinStart = EmptyMap
    /\ coinPayload = EmptyMap
    /\ coinTable = EmptyMap
    /\ coinPc = "off"
    \* the write/read round trip is not running
    /\ cdTable = EmptyMap
    /\ cdFile = NoFile
    /\ cdBack = EmptyMap
    /\ cdFile2 = NoFile
    /\ cdPc = "off"
    \* augment_dat_with_mnav.py has not run and finds no file
    /\ augFile = NoFile
    /\ augBefore = NoFile
    /\ augRuns = 0
    /\ augExit = 0
    \* write_table is not being followed step by step
    /\ wrDest = NoFile
    /\ wrOld = NoFile
    /\ wrNew = NoFile
    /\ wrPc = "off"
    \* no run with a fallible provider has been made
    /\ mainExit = 0
    /\ mainResp = EmptyMap
    \* fs_etf.py has not run
    /\ etfBtc = NoTable
    /\ etfEth = NoTable
    /\ etfEdited = ""
    /\ etfUsed = EmptyMap
    /\ etfBound = EmptyMap
    /\ etfSite = EmptyMap
    /\ etfOut = <<>>
    /\ etfPrevOut = <<>>
    /\ etfRuns = 0
    /\ etfPc = "off"
    \* the provider's holdings are not followed
    /\ provHeld = {}
    /\ provToday = 0

\* the provider lists the key Price where an earlier run left a file
DeriveAvail ==
    [sym \in Range(Symbols) |->
        IF sym = "EQ-SBET" /\ datFile.exists THEN AvailTwice ELSE AvailPlain]

\* the answers of the derivation model: every history of EQ-SBET
DeriveAnswers ==
    {SbetAnswer(pnf, sf) @@ MstrAnswer :
        pnf \in [DatDays -> PriceNavVals], sf \in [DatDays -> SharesVals]}

MainDerive == DatRun(DeriveAvail, DeriveAnswers)

NextDerive == MainDerive

SpecDerive == InitDerive /\ [][NextDerive]_vars

(***************************************************************************)
(* Claims about the derived rows of art_dat.main()                         *)
(***************************************************************************)
\* the dates of the table of the run
TableDates == {k[1] : k \in DOMAIN datTable}

\* the table has a value for the key mapped to the label, on the date
HasOn(d, label, sym) ==
    /\ label \in DOMAIN datMapping[sym]
    /\ datMapping[sym][label] \notin {Null, ""}
    /\ <<d, datMapping[sym][label]>> \in DOMAIN datTable
    /\ sym \in DOMAIN datTable[<<d, datMapping[sym][label]>>]

ValueOn(d, label, sym) == datTable[<<d, datMapping[sym][label]>>][sym]

\* the dates up to d on which the symbol has a number of shares
SharesDatesUpTo(d, sym) ==
    {e \in TableDates : e <= d /\ HasOn(e, "Number of Shares Outstanding", sym)}

SharesAsOf(d, sym) ==
    ValueOn(Max(SharesDatesUpTo(d, sym)), "Number of Shares Outstanding", sym)

\* the three inputs of mNAV resolve on the date
MnavInputs(d, sym) ==
    /\ HasOn(d, "Price", sym)
    /\ SharesDatesUpTo(d, sym) # {}
    /\ HasOn(d, "Net Asset Value", sym)
    /\ ~IsZero(ValueOn(d, "Net Asset Value", sym))

\* the file written has a number in the mNAV row of the date for the symbol
MnavWritten(d, sym) == <<d, "mNAV", sym>> \in Cells(ReadTable(datFile))

\* C9: for every date of the table and every requested symbol, the output
\* has an mNAV cell exactly when a price is present on the date, a number of
\* shares is present on the date or on an earlier one, and a net asset value
\* is present on the date and is not zero; the cell is then
\* (price * shares) / nav with the latest number of shares, and otherwise
\* there is no cell, in the rows built and in the file written.
C9_MnavCell ==
    datPc = "done" =>
        \A d \in TableDates : \A sym \in Range(Symbols) :
            /\ MnavWritten(d, sym) <=> MnavInputs(d, sym)
            /\ ( /\ <<d, "mNAV">> \in DOMAIN datFinal
                 /\ sym \in DOMAIN datFinal[<<d, "mNAV">>] ) <=> MnavInputs(d, sym)
            /\ MnavInputs(d, sym) =>
                  datFinal[<<d, "mNAV">>][sym] =
                      Div(Mul(ValueOn(d, "Price", sym), SharesAsOf(d, sym)),
                          ValueOn(d, "Net Asset Value", sym))

\* a run in which EQ-SBET has shares on day 1 only, a zero net asset value on
\* day 2 and a zero price on day 3: no cell on day 2, the cell 0 on day 3
C9_Witness ==
    /\ datPc = "done"
    /\ SharesDatesUpTo(3, "EQ-SBET") = {1}
    /\ HasOn(2, "Price", "EQ-SBET")
    /\ HasOn(2, "Net Asset Value", "EQ-SBET")
    /\ IsZero(ValueOn(2, "Net Asset Value", "EQ-SBET"))
    /\ ~MnavWritten(2, "EQ-SBET")
    /\ HasOn(3, "Price", "EQ-SBET")
    /\ IsZero(ValueOn(3, "Price", "EQ-SBET"))
    /\ MnavWritten(3, "EQ-SBET")
    /\ IsZero(datFinal[<<3, "mNAV">>]["EQ-SBET"])
    /\ MnavWritten(1, "EQ-SBET")
    /\ ~IsZero(datFinal[<<1, "mNAV">>]["EQ-SBET"])

\* C10: the forward-filled number of shares of a symbol on a date of the
\* table is the value of the latest date up to it on which the symbol has a
\* number of shares, and there is none before the first such date.
C10_ForwardFill ==
    datPc = "done" =>
        /\ DOMAIN datFfilled = TableDates \X Range(Symbols)
        /\ \A d \in TableDates : \A sym \in Range(Symbols) :
              datFfilled[<<d, sym>>] =
                  IF SharesDatesUpTo(d, sym) = {} THEN <<>>
                  ELSE <<SharesAsOf(d, sym)>>

\* a run in which EQ-SBET has shares on day 2 only, and EQ-MSTR too, with
\* another value: nothing on day 1, the symbol's own value on days 2 and 3
C10_Witness ==
    /\ datPc = "done"
    /\ TableDates = DatDays
    /\ SharesDatesUpTo(3, "EQ-SBET") = {2}
    /\ datFfilled[<<1, "EQ-SBET">>] = <<>>
    /\ datFfilled[<<2, "EQ-SBET">>] = <<Num(3)>>
    /\ datFfilled[<<3, "EQ-SBET">>] = <<Num(3)>>
    /\ datFfilled[<<1, "EQ-MSTR">>] = <<>>
    /\ datFfilled[<<3, "EQ-MSTR">>] = <<Num(2)>>

(***************************************************************************)
(* augment_dat_with_mnav.py                                                *)
(*                                                                         *)
(* The script reads dat_data.csv as text, takes the rows whose metric      *)
(* names a price, a number of shares or a net asset value, computes        *)
(* (price * shares) / nav per date and ticker with pandas, drops the old   *)
(* mnav rows and appends the new ones.  A pandas float is a number, NaN    *)
(* or an infinity.  Column names are kept as the file has them: the        *)
(* files of the model have no column that differs from another by case    *)
(* or surrounding blanks only.                                             *)
(***************************************************************************)
WANT == <<"MSTR", "SBET">>

NanF == [kind |-> "nan", v |-> Num(0)]

InfF == [kind |-> "inf", v |-> Num(0)]

NumF(x) == [kind |-> "num", v |-> x]

\* the text inf, which f"{v:.12g}" prints for an infinity
InfText == [kind |-> "inf", neg |-> FALSE, int |-> 0, digits |-> <<>>]

\* to_num on the text of a cell: float(s), NaN where it raises or s is empty
ToNum(text) ==
    IF text.kind = "num" THEN NumF(ParseFloat(text))
    ELSE IF text.kind = "inf" THEN InfF
    ELSE NanF

\* is_price, is_shares, is_nav on the metric names of the model
IsPrice(name) == name \in {"Price", "price"}

IsShares(name) == name = "Number of Shares Outstanding"

IsNav(name) == name \in {"Net Asset Value", "MC / Nav"}

\* df["metric"].str.lower().eq("mnav")
IsMnav(name) == name \in {"mNAV", "mnav"}

\* col_to_ticker on the column names of the model
ColToTicker(col) ==
    CASE col = "EQ-SBET" -> "SBET"
      [] col = "EQ-MSTR" -> "MSTR"
      [] OTHER -> Null

\* ticker_cols: the positions of the columns of a wanted ticker
TickerCols(header) ==
    {j \in DOMAIN header :
        /\ header[j] \notin {"date", "metric"}
        /\ ColToTicker(header[j]) \in Range(WANT)}

\* metric_block: per date and ticker, the last number among the rows of the
\* date whose metric satisfies pred (groupby("date").last() skips NaN)
MetricBlock(file, pred(_)) ==
    LET rows  == file.rows
        mine  == {i \in DOMAIN rows : pred(rows[i].metric)}
        cols  == TickerCols(file.header)
        colOf(t) == CHOOSE j \in cols : ColToTicker(file.header[j]) = t
        nums(d, t) == {i \in mine : /\ rows[i].date = d
                                    /\ ToNum(rows[i].cells[colOf(t)]) # NanF}
    IN  [d \in {rows[i].date : i \in mine} |->
            [t \in {ColToTicker(file.header[j]) : j \in cols} |->
                IF nums(d, t) = {} THEN NanF
                ELSE ToNum(rows[Max(nums(d, t))].cells[colOf(t)])]]

\* block.reindex(idx): NaN where the block has no row of the date
Reindexed(block, d, t) ==
    IF d \in DOMAIN block /\ t \in DOMAIN block[d] THEN block[d][t] ELSE NanF

\* the digits a double carries in the model
DoubleDigits == 16

\* price * shares on pandas floats
MulF(a, b) ==
    IF a = NanF \/ b = NanF THEN NanF
    ELSE IF a = InfF \/ b = InfF
    THEN (IF (a # InfF /\ IsZero(a.v)) \/ (b # InfF /\ IsZero(b.v))
          THEN NanF ELSE InfF)
    ELSE NumF(Mul(a.v, b.v))

\* a / b on pandas floats: x / 0 is an infinity, 0 / 0 is NaN
DivF(a, b) ==
    IF a = NanF \/ b = NanF THEN NanF
    ELSE IF a = InfF THEN (IF b = InfF THEN NanF ELSE InfF)
    ELSE IF b = InfF THEN NumF(Num(0))
    ELSE IF IsZero(b.v) THEN (IF IsZero(a.v) THEN NanF ELSE InfF)
    ELSE NumF([neg  |-> a.v.neg # b.v.neg,
               int  |-> a.v.int \div b.v.int,
               frac |-> StripZeros(DivDigits(a.v.int % b.v.int, b.v.int,
                                             DoubleDigits))])

\* the significant digits of f"{v:.12g}"
SigDigits == 12

RECURSIVE NumDigits(_)
NumDigits(n) == IF n < 10 THEN 1 ELSE 1 + NumDigits(n \div 10)

RECURSIVE LeadZeros(_)
LeadZeros(ds) ==
    IF ds = <<>> \/ ds[1] # 0 THEN 0 ELSE 1 + LeadZeros(Tail(ds))

\* v rounded to k fraction digits, ties to even
RoundTo(v, k) ==
    LET all  == v.frac \o Zeros(k)
        kept == SubSeq(all, 1, k)
        rest == SubSeq(v.frac, k + 1, Len(v.frac))
        odd  == IF k = 0 THEN v.int % 2 = 1 ELSE kept[k] % 2 = 1
        up   == /\ rest # <<>>
                /\ \/ rest[1] > 5
                   \/ rest[1] = 5 /\ (Len(rest) > 1 \/ odd)
        inc  == IncDigits(kept)
    IN  IF up THEN [int |-> v.int + inc.carry, digits |-> inc.digits]
        ELSE [int |-> v.int, digits |-> kept]

\* f"{v:.12g}" for the magnitudes of the model (no exponent form): twelve
\* significant digits, trailing zeros of the fraction removed
Format12g(v) ==
    LET k == IF v.int > 0 THEN SigDigits - NumDigits(v.int)
             ELSE LeadZeros(v.frac) + SigDigits
        r == RoundTo(v, k)
    IN  [kind |-> "num", neg |-> v.neg, int |-> r.int,
         digits |-> StripZeros(r.digits)]

\* the text of a pandas float that is not NaN
FloatText(x) == IF x = InfF THEN InfText ELSE Format12g(x.v)

\* mnav = (price * shares) / nav over the union of the dates of the three
\* blocks; dropna(how="all") removes the dates without any number
Mnav(file) ==
    LET price   == MetricBlock(file, IsPrice)
        shares  == MetricBlock(file, IsShares)
        nav     == MetricBlock(file, IsNav)
        idx     == DOMAIN price \cup DOMAIN shares \cup DOMAIN nav
        tickers == {ColToTicker(file.header[j]) : j \in TickerCols(file.header)}
        at(d, t) == DivF(MulF(Reindexed(price, d, t), Reindexed(shares, d, t)),
                         Reindexed(nav, d, t))
    IN  [d \in {e \in idx : \E t \in tickers : at(e, t) # NanF} |->
            [t \in tickers |-> at(d, t)]]

\* out_rows: one row per date of mnav, in index order, with the text of
\* every number under the ticker's column and "" elsewhere
OutRows(file) ==
    LET mnav  == Mnav(file)
        dates == SortedDates(DOMAIN mnav)
    IN  [i \in DOMAIN dates |->
            [date   |-> dates[i],
             metric |-> "mnav",
             cells  |-> [j \in DOMAIN file.header |->
                           IF /\ j \in TickerCols(file.header)
                              /\ mnav[dates[i]][ColToTicker(file.header[j])] # NanF
                           THEN FloatText(mnav[dates[i]][ColToTicker(file.header[j])])
                           ELSE EmptyText]]]

\* faulty variant: the rows of an earlier derivation are kept
NoOldKeepsAll(rows) == rows

\* no_old: the rows whose metric is not mnav
NoOld(rows) == SelectSeq(rows, LAMBDA r : ~IsMnav(r.metric))

\* the script finds its file, the date and metric columns and a ticker column
Usable(file) ==
    /\ file.exists
    /\ {"date", "metric"} \subseteq Range(file.header)
    /\ TickerCols(file.header) # {}

\* new_df = concat([no_old, add]), written over the file
Augmented(file) ==
    [exists |-> TRUE, header |-> file.header,
     rows   |-> NoOld(file.rows) \o OutRows(file)]

\* one run of the script; it exits with status 1 before it writes when the
\* file, the date and metric columns or every ticker column is missing
AugRun ==
    /\ augRuns < 2
    /\ augRuns' = augRuns + 1
    /\ augBefore' = augFile
    /\ IF Usable(augFile)
       THEN augFile' = Augmented(augFile) /\ augExit' = 0
       ELSE augFile' = augFile /\ augExit' = 1
    /\ UNCHANGED <<coinVars, cdVars, datVars, wrVars, mainVars, etfVars, provVars>>

\* the tables the files of the derivation model are written from.  EQ-SBET
\* on day 1: a price p, a number of shares sh and a net asset value n, each
\* possibly absent (NoneVal); a price alone on day 2; EQ-MSTR with all
\* three on day 1 or nowhere; an mNAV row of an earlier derivation on day 1
\* (stale = 1) or on day 3, where no base row is left (stale = 2); the
\* composite MC / Nav on day 1
AugCell(p, sh, n, mstr, stale, mc, k, sym) ==
    IF sym = "EQ-SBET"
    THEN CASE k = <<1, "Price">> -> p
           [] k = <<1, "Number of Shares Outstanding">> -> sh
           [] k = <<1, "Net Asset Value">> -> n
           [] k = <<1, "MC / Nav">> -> IF mc THEN Num(2) ELSE NoneVal
           [] k = <<1, "mNAV">> -> IF stale = 1 THEN Num(9) ELSE NoneVal
           [] k = <<3, "mNAV">> -> IF stale = 2 THEN Num(9) ELSE NoneVal
           [] k = <<2, "Price">> -> Num(2)
           [] OTHER -> NoneVal
    ELSE IF mstr /\ k[1] = 1
    THEN CASE k[2] = "Price" -> Num(2)
           [] k[2] = "Number of Shares Outstanding" -> Num(1)
           [] k[2] = "Net Asset Value" -> Num(3)
           [] OTHER -> NoneVal
    ELSE NoneVal

AugTable(p, sh, n, mstr, stale, mc) ==
    LET keys == {1, 2, 3} \X (Range(UI_LABELS) \cup Range(CompositeLabels))
        syms(k) == {sym \in Range(Symbols) :
                       AugCell(p, sh, n, mstr, stale, mc, k, sym) # NoneVal}
    IN  [k \in {x \in keys : syms(x) # {}} |->
            [sym \in syms(k) |-> AugCell(p, sh, n, mstr, stale, mc, k, sym)]]

\* the files art_dat.write_table leaves for those tables, a missing file, and
\* a file without a column of a wanted ticker
AugFiles ==
    {DatWriteTable(AugTable(p, sh, n, mstr, stale, mc), Symbols) :
        p \in {NoneVal, Num(0), Num(2)}, sh \in {NoneVal, Num(3)},
        n \in {NoneVal, Num(0), Num(3)}, mstr \in BOOLEAN,
        stale \in {0, 1, 2}, mc \in BOOLEAN}
    \cup {NoFile, LegacyFile}

InitAug ==
    /\ augFile \in AugFiles
    /\ augBefore = NoFile
    /\ augRuns = 0
    /\ augExit = 0
    \* the coin script is not running
    /\ coinFile = NoFile
    /\ coinLoaded = EmptyMap
    /\ coinStart = EmptyMap
    /\ coinPayload = EmptyMap
    /\ coinTable = EmptyMap
    /\ coinPc = "off"
    \* the write/read round trip is not running
    /\ cdTable = EmptyMap
    /\ cdFile = NoFile
    /\ cdBack = EmptyMap
    /\ cdFile2 = NoFile
    /\ cdPc = "off"
    \* the equity script is not running and has left no file
    /\ datFile = NoFile
    /\ datMapFile = NoMapFile
    /\ datOldMapFile = NoMapFile
    /\ datAvail = EmptyMap
    /\ datPrior = EmptyMap
    /\ datMapping = EmptyMap
    /\ datLoaded = EmptyMap
    /\ datTable = EmptyMap
    /\ datFfilled = EmptyMap
    /\ datFinal = EmptyMap
    /\ datPc = "off"
    \* write_table is not being followed step by step
    /\ wrDest = NoFile
    /\ wrOld = NoFile
    /\ wrNew = NoFile
    /\ wrPc = "off"
    \* no run with a fallible provider has been made
    /\ mainExit = 0
    /\ mainResp = EmptyMap
    \* fs_etf.py has not run
    /\ etfBtc = NoTable
    /\ etfEth = NoTable
    /\ etfEdited = ""
    /\ etfUsed = EmptyMap
    /\ etfBound = EmptyMap
    /\ etfSite = EmptyMap
    /\ etfOut = <<>>
    /\ etfPrevOut = <<>>
    /\ etfRuns = 0
    /\ etfPc = "off"
    \* the provider's holdings are not followed
    /\ provHeld = {}
    /\ provToday = 0

NextAug == AugRun

SpecAug == InitAug /\ [][NextAug]_vars

(***************************************************************************)
(* Claims about augment_dat_with_mnav.py                                   *)
(***************************************************************************)
\* the file has a row of the date and one of the metrics with a number in
\* column j
HasNumber(file, d, metrics, j) ==
    \E i \in DOMAIN file.rows :
        /\ file.rows[i].date = d
        /\ file.rows[i].metric \in metrics
        /\ file.rows[i].cells[j].kind = "num"

\* the file has a row of the date and one of the metrics with a number other
\* than zero in column j
HasNonZero(file, d, metrics, j) ==
    \E i \in DOMAIN file.rows :
        /\ file.rows[i].date = d
        /\ file.rows[i].metric \in metrics
        /\ file.rows[i].cells[j].kind = "num"
        /\ ~IsZero(ParseFloat(file.rows[i].cells[j]))

\* the mnav cells of a file: <<date, column>> of every non-empty cell of a
\* row whose metric is mnav
MnavCells(file) ==
    {<<file.rows[c[1]].date, c[2]>> :
        c \in {x \in (DOMAIN file.rows) \X TickerCols(file.header) :
                  /\ IsMnav(file.rows[x[1]].metric)
                  /\ file.rows[x[1]].cells[x[2]] # EmptyText}}

\* the metric names the script reads as price, shares and net asset value
MetricNames == Range(UI_LABELS) \cup Range(CompositeLabels) \cup {"mnav"}

\* C11: a run that writes leaves no mnav cell for a date and ticker whose
\* price or number of shares is absent or whose net asset value is absent
\* or zero, among the rows the script reads as price, shares and net asset
\* value.
C11_NoCellWithoutInputs ==
    (augRuns >= 1 /\ augExit = 0) =>
        \A c \in MnavCells(augFile) :
            /\ HasNumber(augBefore, c[1], {m \in MetricNames : IsPrice(m)}, c[2])
            /\ HasNumber(augBefore, c[1], {m \in MetricNames : IsShares(m)}, c[2])
            /\ HasNonZero(augBefore, c[1], {m \in MetricNames : IsNav(m)}, c[2])

\* the rows of a file whose metric is not mnav, in file order
BaseRows(file) == SelectSeq(file.rows, LAMBDA r : ~IsMnav(r.metric))

\* the rows of a file whose metric is mnav, in file order
DerivedRows(file) == SelectSeq(file.rows, LAMBDA r : IsMnav(r.metric))

\* C12: after a run that writes, the columns and the rows of the other
\* metrics are those of the file before, in the same order; the mnav rows
\* follow them, one per date, each with a number, and every number of an
\* mnav row stands on a date and in a column for which the file before has
\* a price, a number of shares and a net asset value (so a row of an
\* earlier derivation whose base rows are gone is gone too); a second run
\* on the file the first one wrote leaves the file as it is.
C12_DerivedReplaced ==
    (augRuns >= 1 /\ augExit = 0) =>
        /\ augFile.header = augBefore.header
        /\ BaseRows(augFile) = BaseRows(augBefore)
        /\ augFile.rows = BaseRows(augFile) \o DerivedRows(augFile)
        /\ DerivedRows(augFile) = OutRows(augBefore)
        /\ \A i, j \in DOMAIN DerivedRows(augFile) :
              /\ DerivedRows(augFile)[i].metric = "mnav"
              /\ \E c \in MnavCells(augFile) : c[1] = DerivedRows(augFile)[i].date
              /\ i < j => DerivedRows(augFile)[i].date < DerivedRows(augFile)[j].date
        /\ \A c \in MnavCells(augFile) :
              /\ HasNumber(augBefore, c[1], {m \in MetricNames : IsPrice(m)}, c[2])
              /\ HasNumber(augBefore, c[1], {m \in MetricNames : IsShares(m)}, c[2])
              /\ HasNumber(augBefore, c[1], {m \in MetricNames : IsNav(m)}, c[2])
        /\ augRuns = 2 => augFile = augBefore

\* a run on a file that held an mNAV row of an earlier derivation on day 3
\* and a wrong one on no other day: the row of day 3 is gone, day 1 has its
\* computed row
C12_Witness ==
    /\ augRuns = 1
    /\ augExit = 0
    /\ \E i \in DOMAIN augBefore.rows :
          augBefore.rows[i].date = 3 /\ augBefore.rows[i].metric = "mNAV"
    /\ \A i \in DOMAIN augFile.rows : augFile.rows[i].date # 3
    /\ \E c \in MnavCells(augFile) : c[1] = 1
    /\ Len(BaseRows(augFile)) >= 3

(***************************************************************************)
(* write_table of art_coin.py, step by step                                *)
(*                                                                         *)
(* with CSV_PATH.open("w", newline="") as f: the destination is opened     *)
(* for writing, which empties it; the header and the rows follow one       *)
(* writerow at a time; the file is closed when the block is left.  The     *)
(* process can die between any two steps.  art_dat.write_table and         *)
(* MAP_PATH.write_text open their destinations the same way.               *)
(***************************************************************************)
\* a file that exists and holds nothing
EmptyFile == [exists |-> TRUE, header |-> <<>>, rows |-> <<>>]

\* open(path, "w")
WrOpen ==
    /\ wrPc = "start"
    /\ wrDest' = EmptyFile
    /\ wrPc' = "open"
    /\ UNCHANGED <<wrOld, wrNew, coinVars, cdVars, datVars, augVars, mainVars, etfVars, provVars>>

\* w.writerow(["date", "metric"] + header_tokens)
WrHeader ==
    /\ wrPc = "open"
    /\ wrDest' = [wrDest EXCEPT !.header = wrNew.header]
    /\ wrPc' = "rows"
    /\ UNCHANGED <<wrOld, wrNew, coinVars, cdVars, datVars, augVars, mainVars, etfVars, provVars>>

\* w.writerow(row) for the next key
WrRow ==
    /\ wrPc = "rows"
    /\ Len(wrDest.rows) < Len(wrNew.rows)
    /\ wrDest' = [wrDest EXCEPT !.rows = Append(@, wrNew.rows[Len(@) + 1])]
    /\ UNCHANGED <<wrPc, wrOld, wrNew, coinVars, cdVars, datVars, augVars, mainVars, etfVars, provVars>>

\* the with block is left
WrClose ==
    /\ wrPc = "rows"
    /\ Len(wrDest.rows) = Len(wrNew.rows)
    /\ wrPc' = "closed"
    /\ UNCHANGED <<wrDest, wrOld, wrNew, coinVars, cdVars, datVars, augVars, mainVars, etfVars, provVars>>

\* the process dies while the file is open
WrCrash ==
    /\ wrPc \in {"open", "rows"}
    /\ wrPc' = "crashed"
    /\ UNCHANGED <<wrDest, wrOld, wrNew, coinVars, cdVars, datVars, augVars, mainVars, etfVars, provVars>>

InitWrite ==
    /\ wrOld \in {NoFile, LegacyFile}
    /\ wrDest = wrOld
    /\ wrNew \in {WriteTable(t, TokensUpper(TOKENS)) : t \in CodecTables}
    /\ wrPc = "start"
    \* augment_dat_with_mnav.py has not run and finds no file
    /\ augFile = NoFile
    /\ augBefore = NoFile
    /\ augRuns = 0
    /\ augExit = 0
    \* the coin script is not running
    /\ coinFile = NoFile
    /\ coinLoaded = EmptyMap
    /\ coinStart = EmptyMap
    /\ coinPayload = EmptyMap
    /\ coinTable = EmptyMap
    /\ coinPc = "off"
    \* the write/read round trip is not running
    /\ cdTable = EmptyMap
    /\ cdFile = NoFile
    /\ cdBack = EmptyMap
    /\ cdFile2 = NoFile
    /\ cdPc = "off"
    \* the equity script is not running and has left no file
    /\ datFile = NoFile
    /\ datMapFile = NoMapFile
    /\ datOldMapFile = NoMapFile
    /\ datAvail = EmptyMap
    /\ datPrior = EmptyMap
    /\ datMapping = EmptyMap
    /\ datLoaded = EmptyMap
    /\ datTable = EmptyMap
    /\ datFfilled = EmptyMap
    /\ datFinal = EmptyMap
    /\ datPc = "off"
    \* no run with a fallible provider has been made
    /\ mainExit = 0
    /\ mainResp = EmptyMap
    \* fs_etf.py has not run
    /\ etfBtc = NoTable
    /\ etfEth = NoTable
    /\ etfEdited = ""
    /\ etfUsed = EmptyMap
    /\ etfBound = EmptyMap
    /\ etfSite = EmptyMap
    /\ etfOut = <<>>
    /\ etfPrevOut = <<>>
    /\ etfRuns = 0
    /\ etfPc = "off"
    \* the provider's holdings are not followed
    /\ provHeld = {}
    /\ provToday = 0

NextWrite == WrOpen \/ WrHeader \/ WrRow \/ WrClose \/ WrCrash

SpecWrite == InitWrite /\ [][NextWrite]_vars

\* C13: at every point of a write, a crash included, the destination holds
\* the complete previous content or the complete new content.
C13_AtomicReplace == wrPc # "off" => wrDest \in {wrOld, wrNew}

(***************************************************************************)
(* art_coin.py run as a script, with a provider that can fail              *)
(*                                                                         *)
(* fetch_metric_for_tokens catches TypeError alone: any other exception of *)
(* client.fetch_metrics, the RuntimeError of an answer that is no dict and *)
(* the ValueError of float(v) leave run(); the except of __main__ prints   *)
(* the error and calls sys.exit(2).  write_table is the last statement of  *)
(* run() and is not reached.                                               *)
(***************************************************************************)
\* a value float() refuses, such as "n/a"
JunkVal == [neg |-> FALSE, int |-> -2, frac |-> <<>>]

\* run() loops over whatever METRICS lists: two metrics, so that the fetch
\* of one can fail after the fetch of another has succeeded
TwoMetrics == <<"price", "mc">>

\* the points a fallible provider serves
FalliblePoints ==
    [sym : {Lower(Upper(t)) : t \in Range(TOKENS)},
     date : {1, NoneDate}, val : {Num(1), NoneVal, JunkVal}]

\* a point with a date and a number
GoodPoint == [sym |-> "eth", date |-> 1, val |-> Num(1)]

\* the outcomes of client.fetch_metrics: an exception, no point, one point,
\* or a good point before or after another point
FallibleResponses ==
    {[raises |-> TRUE, points |-> <<>>]} \cup
    {[raises |-> FALSE, points |-> p] :
        p \in {<<>>} \cup {<<q>> : q \in FalliblePoints}
                     \cup {<<GoodPoint, q>> : q \in FalliblePoints}
                     \cup {<<q, GoodPoint>> : q \in FalliblePoints}}

\* float(v) is reached for a point with a date and a value
FloatRaises(points) ==
    \E i \in DOMAIN points :
        /\ points[i].date # NoneDate
        /\ points[i].val # NoneVal
        /\ points[i].val = JunkVal

\* fetch_metric_for_tokens leaves with an exception
FetchRaises(resp) == resp.raises \/ FloatRaises(resp.points)

\* the loop over the metrics, left at the first fetch that raises
RECURSIVE RunMetricsOrRaise(_, _, _, _)
RunMetricsOrRaise(acc, metrics, tokensUpper, resp) ==
    IF metrics = <<>> \/ acc.raised THEN acc
    ELSE LET metric == Head(metrics)
             start  == EffectiveStart(acc.table, metric, tokensUpper)
             starts == [m \in DOMAIN acc.start \cup {metric} |->
                          IF m = metric THEN start ELSE acc.start[m]]
         IN  IF FetchRaises(resp[metric])
             THEN [acc EXCEPT !.raised = TRUE, !.start = starts]
             ELSE LET series == FetchMetricForTokens(resp[metric].points,
                                                     tokensUpper)
                      merged == Merge(acc.table, metric, tokensUpper, series)
                  IN  RunMetricsOrRaise(
                          [table   |-> merged,
                           start   |-> starts,
                           payload |-> [m \in DOMAIN acc.payload \cup {metric} |->
                                          IF m = metric THEN series
                                          ELSE acc.payload[m]],
                           raised  |-> FALSE],
                          Tail(metrics), tokensUpper, resp)

\* try: run() / except Exception: sys.exit(2)
MainCoin ==
    /\ coinPc = "idle"
    /\ \E tokensUpper \in {TokensUpper(TOKENS)} :
       \E loaded \in {ReadExistingTable(coinFile)} :
       \E resp \in [Range(TwoMetrics) -> FallibleResponses] :
       \E out \in {RunMetricsOrRaise([table |-> loaded, start |-> EmptyMap,
                                      payload |-> EmptyMap, raised |-> FALSE],
                                     TwoMetrics, tokensUpper, resp)} :
          /\ mainResp'    = resp
          /\ coinLoaded'  = loaded
          /\ coinStart'   = out.start
          /\ coinPayload' = out.payload
          /\ coinTable'   = out.table
          /\ coinFile'    = IF out.raised THEN coinFile
                            ELSE WriteTable(out.table, tokensUpper)
          /\ mainExit'    = IF out.raised THEN 2 ELSE 0
          /\ coinPc'      = "done"
          /\ UNCHANGED <<cdVars, datVars, augVars, wrVars, etfVars, provVars>>

\* the process has ended: the next invocation starts from the file
ExitMain ==
    /\ coinPc = "done"
    /\ coinPc' = "idle"
    /\ coinLoaded' = EmptyMap
    /\ coinStart' = EmptyMap
    /\ coinPayload' = EmptyMap
    /\ coinTable' = EmptyMap
    /\ mainExit' = 0
    /\ mainResp' = EmptyMap
    /\ UNCHANGED <<coinFile, cdVars, datVars, augVars, wrVars, etfVars, provVars>>

InitFallible ==
    /\ coinFile \in {NoFile, LegacyFile}
    /\ coinLoaded = EmptyMap
    /\ coinStart = EmptyMap
    /\ coinPayload = EmptyMap
    /\ coinTable = EmptyMap
    /\ coinPc = "idle"
    /\ mainExit = 0
    /\ mainResp = EmptyMap
    \* the write/read round trip is not running
    /\ cdTable = EmptyMap
    /\ cdFile = NoFile
    /\ cdBack = EmptyMap
    /\ cdFile2 = NoFile
    /\ cdPc = "off"
    \* the equity script is not running and has left no file
    /\ datFile = NoFile
    /\ datMapFile = NoMapFile
    /\ datOldMapFile = NoMapFile
    /\ datAvail = EmptyMap
    /\ datPrior = EmptyMap
    /\ datMapping = EmptyMap
    /\ datLoaded = EmptyMap
    /\ datTable = EmptyMap
    /\ datFfilled = EmptyMap
    /\ datFinal = EmptyMap
    /\ datPc = "off"
    \* augment_dat_with_mnav.py has not run and finds no file
    /\ augFile = NoFile
    /\ augBefore = NoFile
    /\ augRuns = 0
    /\ augExit = 0
    \* write_table is not being followed step by step
    /\ wrDest = NoFile
    /\ wrOld = NoFile
    /\ wrNew = NoFile
    /\ wrPc = "off"
    \* fs_etf.py has not run
    /\ etfBtc = NoTable
    /\ etfEth = NoTable
    /\ etfEdited = ""
    /\ etfUsed = EmptyMap
    /\ etfBound = EmptyMap
    /\ etfSite = EmptyMap
    /\ etfOut = <<>>
    /\ etfPrevOut = <<>>
    /\ etfRuns = 0
    /\ etfPc = "off"
    \* the provider's holdings are not followed
    /\ provHeld = {}
    /\ provToday = 0

NextFallible == MainCoin \/ ExitMain

SpecFallible == InitFallible /\ [][NextFallible]_vars

\* C14: a fetch that fails for one metric does not keep the points obtained
\* for another metric out of the file: every point a fetch of the run
\* returned is a cell of the table on disk when the run has ended.
C14_FailureIsolation ==
    coinPc = "done" =>
        \A c \in Cells(coinTable) :
            PayloadHas(c) => c \in Cells(ReadExistingTable(coinFile))

\* the points of the run's responses that have a date and a number
GoodCells ==
    UNION {{<<mainResp[m].points[i].date, m, Upper(mainResp[m].points[i].sym)>> :
              i \in {j \in DOMAIN mainResp[m].points :
                        /\ mainResp[m].points[j].date # NoneDate
                        /\ mainResp[m].points[j].val # NoneVal
                        /\ mainResp[m].points[j].val # JunkVal}} :
           m \in DOMAIN mainResp}

\* C15: a point without a date, without a value or with a value that is no
\* number is skipped and the run goes on: when no call of the provider
\* failed, the run ends with status 0, the other points of the responses are
\* cells of the file, and the file has no cell beyond those and the ones it
\* started with.
C15_SkippedPoints ==
    (coinPc = "done" /\ \A m \in DOMAIN mainResp : ~mainResp[m].raises) =>
        /\ mainExit = 0
        /\ GoodCells \subseteq Cells(ReadExistingTable(coinFile))
        /\ Cells(ReadExistingTable(coinFile)) \subseteq
               Cells(coinLoaded) \cup GoodCells

\* every fetch of the run returned, and none returned a point
NoDataAtAll ==
    \A i \in DOMAIN TwoMetrics :
        /\ TwoMetrics[i] \in DOMAIN coinPayload
        /\ \A t \in DOMAIN coinPayload[TwoMetrics[i]] :
              coinPayload[TwoMetrics[i]][t] = <<>>

\* some fetch of the run returned a point
SomeData ==
    \E m \in DOMAIN coinPayload : \E t \in DOMAIN coinPayload[m] :
        coinPayload[m][t] # <<>>

\* C18: a run whose fetches all return no point ends with a status other
\* than 0; a run in which some fetch obtained a point ends with status 0.
C18_ExitStatus ==
    coinPc = "done" =>
        /\ NoDataAtAll => mainExit # 0
        /\ SomeData => mainExit = 0

(***************************************************************************)
(* The columns art_coin.write_table writes                                 *)
(***************************************************************************)
\* the token columns of the file the run wrote
WrittenCols == TokenCols(coinFile.header)

\* the tokens that hold a value in the merged table and are not requested
ExtraTokens == ExistingTokens(coinTable) \ Requested

\* C16: the file a run writes has the columns date, metric, the requested
\* tokens in the order of TOKENS, then every other token that holds a value
\* in the table, ascending by name; a token that is no longer requested keeps
\* its column and every value the file held for it.
C16_ColumnOrder ==
    coinPc = "done" =>
        /\ SubSeq(coinFile.header, 1, 2) = <<"date", "metric">>
        /\ Len(WrittenCols) = Len(TOKENS) + Cardinality(ExtraTokens)
        /\ \A i \in DOMAIN TOKENS : WrittenCols[i] = Upper(TOKENS[i])
        /\ \A i \in (Len(TOKENS) + 1)..Len(WrittenCols) :
              /\ WrittenCols[i] \in ExtraTokens
              /\ i < Len(WrittenCols) =>
                    AlphaRank(WrittenCols[i]) < AlphaRank(WrittenCols[i + 1])
        /\ \A c \in Cells(coinLoaded) :
              c[3] \notin Requested =>
                  /\ c[3] \in Range(WrittenCols)
                  /\ c \in Cells(ReadExistingTable(coinFile))
                  /\ CellVal(ReadExistingTable(coinFile), c) =
                         CellVal(coinLoaded, c)

\* a run over the earlier file, whose columns were SOL, ADA: both keep their
\* columns, after the requested tokens and in ascending order
C16_Witness ==
    /\ coinPc = "done"
    /\ {"SOL", "ADA"} \subseteq ExistingTokens(coinLoaded)
    /\ <<1, "price", "ETH">> \in Cells(coinTable)
    /\ coinFile.header = <<"date", "metric", "ETH", "BTC", "ADA", "SOL">>

(***************************************************************************)
(* The date range art_coin.run() asks for                                  *)
(***************************************************************************)
\* today = date.today(): the last day the provider can serve
Today == Max(Days)

\* C20: the range passed to the fetch is well-formed: for every metric the
\* start date of the fetch is not later than the end date, today.
C20_RangeWellFormed ==
    coinPc = "done" => \A m \in DOMAIN coinStart : coinStart[m] <= Today

(***************************************************************************)
(* fs_etf.py                                                               *)
(*                                                                         *)
(* A scraped table is its column names, in page order and without the date *)
(* column, and its rows: a date and a number for every column (the values  *)
(* clean_num returned).  Values are whole numbers, which round(1) leaves   *)
(* as they are.                                                            *)
(***************************************************************************)
BTC_TICKERS ==
    <<"IBIT", "FBTC", "BITB", "ARKB", "BTCO", "EZBC", "BRRR", "HODL", "BTCW",
      "GBTC">>

ETH_TICKERS ==
    <<"ETHA", "FETH", "ETHW", "TETH", "ETHV", "QETH", "EZET", "ETHE", "ETH">>

COMMON_EXCLUDE ==
    {"date", "total", "btc", "eth", "average", "maximum", "minimum",
     "cumulative", "cumulative_usd_millions"}

\* the column names of the model
EtfCols ==
    {"ETHA", "FETH", "ETH", "Total", "ETH Total", "ETHA FETH",
     "Cumulative Total", "IBIT", "BTC"}

\* c.strip().lower()
StripLower(c) ==
    CASE c = "ETHA" -> "etha"
      [] c = "FETH" -> "feth"
      [] c = "ETH" -> "eth"
      [] c = "Total" -> "total"
      [] c = "ETH Total" -> "eth total"
      [] c = "ETHA FETH" -> "etha feth"
      [] c = "Cumulative Total" -> "cumulative total"
      [] c = "IBIT" -> "ibit"
      [] c = "BTC" -> "btc"
      [] OTHER -> c

\* header_tokens: the runs of letters and digits of the upper-cased name
EtfHeaderTokens(c) ==
    CASE c = "ETH Total" -> {"ETH", "TOTAL"}
      [] c = "ETHA FETH" -> {"ETHA", "FETH"}
      [] c = "Cumulative Total" -> {"CUMULATIVE", "TOTAL"}
      [] c = "Total" -> {"TOTAL"}
      [] OTHER -> {c}

\* "total" in c.strip().lower()
HasTotal(c) == c \in {"Total", "ETH Total", "Cumulative Total"}

\* "cum" in c.strip().lower()
HasCum(c) == c = "Cumulative Total"

\* the loop of match_columns_by_tickers over the columns: chosen holds the
\* columns taken, bound the ticker each was taken for
RECURSIVE MatchLoop(_, _, _)
MatchLoop(acc, cols, tickers) ==
    IF cols = <<>> THEN acc
    ELSE LET c       == Head(cols)
             matched == {t \in acc.remaining : t \in EtfHeaderTokens(c)}
             t       == CHOOSE x \in matched :
                            \A y \in matched :
                                IndexOf(tickers, x) <= IndexOf(tickers, y)
         IN  IF c = "date" \/ StripLower(c) \in COMMON_EXCLUDE \/ matched = {}
             THEN MatchLoop(acc, Tail(cols), tickers)
             ELSE IF acc.remaining = {t}
             THEN [chosen    |-> Append(acc.chosen, c),
                   bound     |-> Append(acc.bound, t),
                   remaining |-> {}]
             ELSE MatchLoop([chosen    |-> Append(acc.chosen, c),
                             bound     |-> Append(acc.bound, t),
                             remaining |-> acc.remaining \ {t}],
                            Tail(cols), tickers)

\* match_columns_by_tickers
MatchColumnsByTickers(cols, tickers) ==
    MatchLoop([chosen |-> <<>>, bound |-> <<>>, remaining |-> Range(tickers)],
              cols, tickers)

\* site_total_col: "" is None
SiteTotalCol(cols) ==
    LET exact == SelectSeq(cols, LAMBDA c : StripLower(c) = "total")
        loose == SelectSeq(cols, LAMBDA c : HasTotal(c) /\ ~HasCum(c))
    IN  IF exact # <<>> THEN Head(exact)
        ELSE IF loose # <<>> THEN Head(loose)
        ELSE ""

RECURSIVE SumCols(_, _)
SumCols(vals, cols) ==
    IF cols = <<>> THEN 0 ELSE vals[Head(cols)] + SumCols(vals, Tail(cols))

\* select_series_strict: the dates with our_sum, the columns summed and the
\* column read as the site's total
SelectSeriesStrict(table, asset) ==
    LET tickers == IF asset = "BTC" THEN BTC_TICKERS ELSE ETH_TICKERS
        m       == MatchColumnsByTickers(table.cols \o <<"date">>, tickers)
    IN  [ourSum |-> [i \in DOMAIN table.rows |->
                        [date  |-> table.rows[i].date,
                         total |-> SumCols(table.rows[i].vals, m.chosen)]],
         used   |-> m.chosen,
         bound  |-> m.bound,
         site   |-> SiteTotalCol(table.cols \o <<"date">>)]

\* daily_frame and the reindex over the union of the dates: the total of a
\* day, 0 for a day without a row
DailyOn(ourSum, d) ==
    LET hit == SelectSeq(ourSum, LAMBDA r : r.date = d)
    IN  IF hit = <<>> THEN 0 ELSE hit[Len(hit)].total

\* cumsum
RECURSIVE CumOn(_, _, _)
CumOn(ourSum, first, d) ==
    IF d < first THEN 0 ELSE CumOn(ourSum, first, d - 1) + DailyOn(ourSum, d)

\* the rows of etf_data.csv: for every day of the range, the cumulative row
\* and the daily row (sorted by date, then by metric name)
EtfRows(btc, eth) ==
    LET dates == {btc[i].date : i \in DOMAIN btc} \cup
                 {eth[i].date : i \in DOMAIN eth}
        first == Min(dates)
        days  == Max(dates) - first + 1
    IN  [i \in 1..(2 * days) |->
            LET d == first + ((i - 1) \div 2)
            IN  IF i % 2 = 1
                THEN [date |-> d,
                      metric |-> "etf_cumulative_net_flow_usd_millions",
                      BTC |-> CumOn(btc, first, d), ETH |-> CumOn(eth, first, d)]
                ELSE [date |-> d,
                      metric |-> "etf_net_flow_usd_millions",
                      BTC |-> DailyOn(btc, d), ETH |-> DailyOn(eth, d)]]

\* build_and_write, on the tables the site serves now
EtfRun ==
    /\ etfPc = "idle"
    /\ etfRuns < 2
    /\ \E b \in {SelectSeriesStrict(etfBtc, "BTC")} :
       \E e \in {SelectSeriesStrict(etfEth, "ETH")} :
          /\ etfUsed'  = [a \in {"BTC", "ETH"} |->
                            IF a = "BTC" THEN b.used ELSE e.used]
          /\ etfBound' = [a \in {"BTC", "ETH"} |->
                            IF a = "BTC" THEN b.bound ELSE e.bound]
          /\ etfSite'  = [a \in {"BTC", "ETH"} |->
                            IF a = "BTC" THEN b.site ELSE e.site]
          /\ etfOut'   = EtfRows(b.ourSum, e.ourSum)
    /\ etfPrevOut' = etfOut
    /\ etfRuns' = etfRuns + 1
    /\ etfPc' = "done"
    /\ UNCHANGED <<etfBtc, etfEth, etfEdited, coinVars, cdVars, datVars,
                   augVars, wrVars, mainVars, provVars>>

\* the process ends; etf_data.csv stays
EtfExit ==
    /\ etfPc = "done"
    /\ etfPc' = "idle"
    /\ etfUsed' = EmptyMap
    /\ etfBound' = EmptyMap
    /\ etfSite' = EmptyMap
    /\ UNCHANGED <<etfBtc, etfEth, etfEdited, etfOut, etfPrevOut, etfRuns,
                   coinVars, cdVars, datVars, augVars, wrVars, mainVars,
                   provVars>>

\* between two runs the site changes the values of one column of its
\* Ethereum table
SiteEdit ==
    /\ etfPc = "idle"
    /\ etfRuns = 1
    /\ etfEdited = ""
    /\ \E c \in Range(etfEth.cols) :
          /\ etfEdited' = c
          /\ etfEth' = [etfEth EXCEPT !.rows =
                           [i \in DOMAIN etfEth.rows |->
                               [etfEth.rows[i] EXCEPT !.vals[c] = @ + i]]]
    /\ UNCHANGED <<etfBtc, etfUsed, etfBound, etfSite, etfOut, etfPrevOut,
                   etfRuns, etfPc, coinVars, cdVars, datVars, augVars, wrVars,
                   mainVars, provVars>>

\* a table with the given columns and dates, every value 1
EtfTable(cols, dates) ==
    [cols |-> cols,
     rows |-> [i \in DOMAIN dates |->
                 [date |-> dates[i], vals |-> [c \in Range(cols) |-> 1]]]]

\* the column lists of a page: up to three different names
EtfHeaders ==
    {h \in UNION {[1..n -> EtfCols] : n \in {0, 1, 2, 3}} :
        \A i, j \in DOMAIN h : i # j => h[i] # h[j]}

InitEtf ==
    /\ etfBtc \in {EtfTable(h, <<2>>) :
                      h \in {<<"IBIT", "Total">>, <<"BTC", "IBIT">>}}
    /\ etfEth \in {EtfTable(h, <<1, 3>>) : h \in EtfHeaders}
    /\ etfEdited = ""
    /\ etfUsed = EmptyMap
    /\ etfBound = EmptyMap
    /\ etfSite = EmptyMap
    /\ etfOut = <<>>
    /\ etfPrevOut = <<>>
    /\ etfRuns = 0
    /\ etfPc = "idle"
    \* the coin script is not running
    /\ coinFile = NoFile
    /\ coinLoaded = EmptyMap
    /\ coinStart = EmptyMap
    /\ coinPayload = EmptyMap
    /\ coinTable = EmptyMap
    /\ coinPc = "off"
    \* the write/read round trip is not running
    /\ cdTable = EmptyMap
    /\ cdFile = NoFile
    /\ cdBack = EmptyMap
    /\ cdFile2 = NoFile
    /\ cdPc = "off"
    \* the equity script is not running and has left no file
    /\ datFile = NoFile
    /\ datMapFile = NoMapFile
    /\ datOldMapFile = NoMapFile
    /\ datAvail = EmptyMap
    /\ datPrior = EmptyMap
    /\ datMapping = EmptyMap
    /\ datLoaded = EmptyMap
    /\ datTable = EmptyMap
    /\ datFfilled = EmptyMap
    /\ datFinal = EmptyMap
    /\ datPc = "off"
    \* augment_dat_with_mnav.py has not run and finds no file
    /\ augFile = NoFile
    /\ augBefore = NoFile
    /\ augRuns = 0
    /\ augExit = 0
    \* write_table is not being followed step by step
    /\ wrDest = NoFile
    /\ wrOld = NoFile
    /\ wrNew = NoFile
    /\ wrPc = "off"
    \* no run with a fallible provider has been made
    /\ mainExit = 0
    /\ mainResp = EmptyMap
    \* the provider's holdings are not followed
    /\ provHeld = {}
    /\ provToday = 0

NextEtf == EtfRun \/ EtfExit \/ SiteEdit

SpecEtf == InitEtf /\ [][NextEtf]_vars

\* C17: the site's total does not feed the main table: no column summed for
\* an asset is the column read as its site total, and after the site changed
\* only the values of that column the run writes the rows it wrote before.
C17_SiteTotalNotSummed ==
    etfPc = "done" =>
        /\ \A a \in DOMAIN etfSite : etfSite[a] \notin Range(etfUsed[a])
        /\ (etfRuns = 2 /\ etfEdited = etfSite["ETH"]) => etfOut = etfPrevOut

\* the ticker list of an asset
TickersOf(a) == IF a = "BTC" THEN BTC_TICKERS ELSE ETH_TICKERS

\* the columns of the table of an asset, in page order
ColsOf(a) == IF a = "BTC" THEN etfBtc.cols ELSE etfEth.cols

\* the positions of the columns whose header has the ticker as a token
ColsWith(a, t) == {i \in DOMAIN ColsOf(a) : t \in EtfHeaderTokens(ColsOf(a)[i])}

\* C19: for every listed ticker that is a token of some column header,
\* exactly one column is chosen for it, the first such column in page order;
\* no column is chosen twice; every chosen column has a listed ticker among
\* its tokens.
C19_MatchColumns ==
    etfPc = "done" =>
        \A a \in DOMAIN etfUsed :
            /\ \A t \in Range(TickersOf(a)) :
                  ColsWith(a, t) # {} =>
                      /\ Cardinality({i \in DOMAIN etfBound[a] :
                                         etfBound[a][i] = t}) = 1
                      /\ \A i \in DOMAIN etfBound[a] :
                            etfBound[a][i] = t =>
                                etfUsed[a][i] = ColsOf(a)[Min(ColsWith(a, t))]
            /\ \A i, j \in DOMAIN etfUsed[a] :
                  i # j => etfUsed[a][i] # etfUsed[a][j]
            /\ \A i \in DOMAIN etfUsed[a] :
                  EtfHeaderTokens(etfUsed[a][i]) \cap Range(TickersOf(a)) # {}

(***************************************************************************)
(* art_coin.run() against a provider that serves the range it is asked for *)
(*                                                                         *)
(* client.fetch_metrics(metric, symbols, startDate, endDate) returns the   *)
(* points it holds for the symbols with startDate <= date <= endDate.  The *)
(* provider publishes a point when it has it: the points of one day do not *)
(* all appear at once.                                                     *)
(***************************************************************************)
\* the points the provider can come to hold
ProviderPoints ==
    [metric : Range(METRICS),
     sym : {Lower(Upper(t)) : t \in Range(TOKENS)},
     date : Days, val : {Num(1)}]

\* the order the provider lists points in: by symbol, then by date
PointLess(p, q) ==
    \/ AlphaRank(Upper(p.sym)) < AlphaRank(Upper(q.sym))
    \/ p.sym = q.sym /\ p.date < q.date

RECURSIVE PointsInOrder(_)
PointsInOrder(S) ==
    IF S = {} THEN <<>>
    ELSE LET m == CHOOSE x \in S : \A y \in S \ {x} : PointLess(x, y)
         IN  <<[sym |-> m.sym, date |-> m.date, val |-> m.val]>> \o
             PointsInOrder(S \ {m})

\* the response to fetch_metrics(metric, ..., start, end)
Served(held, metric, start, end) ==
    PointsInOrder({p \in held :
                      p.metric = metric /\ start <= p.date /\ p.date <= end})

\* the loop over METRICS, each fetch answered for the range it asks for
RECURSIVE RunMetricsServed(_, _, _, _, _)
RunMetricsServed(acc, metrics, tokensUpper, held, today) ==
    IF metrics = <<>> THEN acc
    ELSE LET metric == Head(metrics)
             start  == EffectiveStart(acc.table, metric, tokensUpper)
             series == FetchMetricForTokens(Served(held, metric, start, today),
                                            tokensUpper)
             merged == Merge(acc.table, metric, tokensUpper, series)
         IN  RunMetricsServed(
                 [table   |-> merged,
                  start   |-> [m \in DOMAIN acc.start \cup {metric} |->
                                 IF m = metric THEN start ELSE acc.start[m]],
                  payload |-> [m \in DOMAIN acc.payload \cup {metric} |->
                                 IF m = metric THEN series
                                 ELSE acc.payload[m]]],
                 Tail(metrics), tokensUpper, held, today)

\* run(), successful
RunResume ==
    /\ coinPc = "idle"
    /\ \E tokensUpper \in {TokensUpper(TOKENS)} :
       \E loaded \in {ReadExistingTable(coinFile)} :
       \E out \in {RunMetricsServed([table |-> loaded, start |-> EmptyMap,
                                     payload |-> EmptyMap],
                                    METRICS, tokensUpper, provHeld, provToday)} :
          /\ coinLoaded'  = loaded
          /\ coinStart'   = out.start
          /\ coinPayload' = out.payload
          /\ coinTable'   = out.table
          /\ coinFile'    = WriteTable(out.table, tokensUpper)
          /\ coinPc'      = "done"
    /\ UNCHANGED <<provVars, cdVars, datVars, augVars, wrVars, mainVars, etfVars>>

\* the provider publishes a point of today or of an earlier day (between
\* two runs: a run is one step, and its locals are compared with what the
\* provider held when it ran)
Publish ==
    /\ coinPc = "idle"
    /\ \E p \in ProviderPoints \ provHeld :
          /\ p.date <= provToday
          /\ provHeld' = provHeld \cup {p}
    /\ UNCHANGED <<provToday, coinVars, cdVars, datVars, augVars, wrVars,
                   mainVars, etfVars>>

\* midnight
NewDay ==
    /\ coinPc = "idle"
    /\ provToday < Max(Days)
    /\ provToday' = provToday + 1
    /\ UNCHANGED <<provHeld, coinVars, cdVars, datVars, augVars, wrVars,
                   mainVars, etfVars>>

InitResume ==
    /\ provHeld = {}
    /\ provToday = Min(Days)
    /\ coinFile = NoFile
    /\ coinLoaded = EmptyMap
    /\ coinStart = EmptyMap
    /\ coinPayload = EmptyMap
    /\ coinTable = EmptyMap
    /\ coinPc = "idle"
    \* the write/read round trip is not running
    /\ cdTable = EmptyMap
    /\ cdFile = NoFile
    /\ cdBack = EmptyMap
    /\ cdFile2 = NoFile
    /\ cdPc = "off"
    \* the equity script is not running and has left no file
    /\ datFile = NoFile
    /\ datMapFile = NoMapFile
    /\ datOldMapFile = NoMapFile
    /\ datAvail = EmptyMap
    /\ datPrior = EmptyMap
    /\ datMapping = EmptyMap
    /\ datLoaded = EmptyMap
    /\ datTable = EmptyMap
    /\ datFfilled = EmptyMap
    /\ datFinal = EmptyMap
    /\ datPc = "off"
    \* augment_dat_with_mnav.py has not run and finds no file
    /\ augFile = NoFile
    /\ augBefore = NoFile
    /\ augRuns = 0
    /\ augExit = 0
    \* write_table is not being followed step by step
    /\ wrDest = NoFile
    /\ wrOld = NoFile
    /\ wrNew = NoFile
    /\ wrPc = "off"
    \* no run with a fallible provider has been made
    /\ mainExit = 0
    /\ mainResp = EmptyMap
    \* fs_etf.py has not run
    /\ etfBtc = NoTable
    /\ etfEth = NoTable
    /\ etfEdited = ""
    /\ etfUsed = EmptyMap
    /\ etfBound = EmptyMap
    /\ etfSite = EmptyMap
    /\ etfOut = <<>>
    /\ etfPrevOut = <<>>
    /\ etfRuns = 0
    /\ etfPc = "off"

NextResume == RunResume \/ ExitCoin \/ Publish \/ NewDay

SpecResume == InitResume /\ [][NextResume]_vars

\* C21: resume-forward misses no point: when a run has ended, the table
\* holds a value for every (date, metric, token) for which the provider held
\* a point of a requested token at the time of the run.
C21_NoPointMissed ==
    coinPc = "done" =>
        \A p \in provHeld :
            <<p.date, p.metric, Upper(p.sym)>> \in Cells(coinTable)
=============================================================================
